---------------------------- MODULE Spec2Model ----------------------------
(***************************************************************************)
(* A model of node-dod: the custom streaming CSV parser                    *)
(* (src/util/ohlc_utils.js), the Row-Store engine (src/ohlc.js) and the    *)
(* Column-Store engine (src/ohlc_system.js).                               *)
(*                                                                         *)
(* JavaScript values are records tagged by k: a finite number is an exact  *)
(* rational n/d in lowest terms, the other numbers are NaN and the two     *)
(* infinities, and there are strings (sequences of byte codes) and         *)
(* undefined.  Array indices are 0-based as in the source; At and Put      *)
(* translate them to TLA+ sequences.                                       *)
(***************************************************************************)
EXTENDS Integers, Sequences, FiniteSets, TLC

VARIABLES
  \* ---- the parser (OhlcUtils.parseFromCsvWithCustom) and its byte source
  file,         \* the bytes of the CSV file
  pos,          \* how many bytes the read stream has handed out
  csvFromLine,  \* +process.env.CSV_FROM_LINE - 1
  target,       \* "ohlcs" (Row-Store) or "ohlcSystem" (Column-Store)
  capacityHint, \* the capacity hint of the caller
  lineCount,    \* closure variables of parseFromCsvWithCustom
  colIndex,
  colText,
  colTextSize,
  ohlc,         \* the row builder
  errors,       \* what process.on('uncaughtException') has logged
  settled,      \* the promise: "pending", "resolved", "rejected"
  result,       \* what the promise resolved to
  finishCount,  \* how often finishFunc has run
  chunkStarts,  \* cursor when the last 'readable' event began each of its buffers
  \* ---- the datasets
  ohlcs,        \* the Row-Store array
  ohlcSystem,   \* the Column-Store object
  \* ---- the engines (Ohlc.calculateAll, OhlcSystem.calculateAll)
  calcWindow,   \* +process.env.CALC_WINDOW
  pc,           \* where the benchmark is
  rowTargetIndex, \* targetIndex, the loop variable of Ohlc.calculateAll
  pass,         \* how many passes of OhlcSystem.calculateAll are done
  rowReturn,    \* what Ohlc.calculateAll returned or threw
  colReturn,    \* what OhlcSystem.calculateAll returned or threw
  \* ---- the chart samples (ChartUtils, AlgUtils.sampleArray)
  chartSamples, \* +process.env.CHART_SAMPLES
  chartTail,    \* +process.env.CHART_TAIL
  rowChart,     \* what ChartUtils.writeOhlcsSamples wrote or threw
  colChart      \* what ChartUtils.writeOhlcSystemSamples wrote or threw

vars == <<file, pos, csvFromLine, target, capacityHint, lineCount, colIndex,
          colText, colTextSize, ohlc, errors, settled, result,
          finishCount, chunkStarts, ohlcs, ohlcSystem, calcWindow, pc, rowTargetIndex,
          pass, rowReturn, colReturn, chartSamples, chartTail, rowChart,
          colChart>>

parserVars == <<file, pos, csvFromLine, target, capacityHint, lineCount,
                colIndex, colText, colTextSize, ohlc, errors,
                settled, result, finishCount, chunkStarts>>

chartVars == <<chartSamples, chartTail, rowChart, colChart>>

engineVars == <<calcWindow, pc, rowTargetIndex, pass, rowReturn, colReturn,
                chartVars>>

(***************************************************************************)
(* Bounds of the model.                                                    *)
(***************************************************************************)
MaxRecords == 4      \* records of a dataset handed to the engines
MaxWindow == 4       \* largest CALC_WINDOW tried (the smallest is -1)
SqrtDigits == 2      \* decimal digits kept of an irrational Math.sqrt
MaxSamples == 3      \* largest CHART_SAMPLES tried
MaxTail == 2         \* largest CHART_TAIL tried

(***************************************************************************)
(* JavaScript numbers.                                                     *)
(***************************************************************************)
\* F applied to the value of v: v is computed once, as the operand of a
\* JavaScript operator or the result of a statement is
Then(v, F(_)) == CHOOSE r \in {F(x) : x \in {v}} : TRUE

Abs(x) == IF x < 0 THEN -x ELSE x

Max(a, b) == IF a > b THEN a ELSE b

Min(a, b) == IF a < b THEN a ELSE b

RECURSIVE GCD(_, _)
GCD(a, b) == IF b = 0 THEN a ELSE GCD(b, a % b)

Rat(n, d) ==
  LET s == IF d < 0 THEN -1 ELSE 1
      g == GCD(Abs(n), Abs(d))
  IN  [k |-> "num", n |-> (s * n) \div g, d |-> (s * d) \div g]

N(i) == Rat(i, 1)

NaN == [k |-> "NaN"]

Undefined == [k |-> "undefined"]

Infinity(sign) == [k |-> "inf", n |-> sign]

Str(s) == [k |-> "str", s |-> s]

IsNum(x) == x.k = "num"

IsInf(x) == x.k = "inf"

IsNumeric(x) == IsNum(x) \/ IsInf(x)

Sign(x) == IF x.n > 0 THEN 1 ELSE IF x.n < 0 THEN -1 ELSE 0

Neg(a) ==
  CASE IsNum(a) -> Rat(-a.n, a.d)
    [] IsInf(a) -> Infinity(-a.n)
    [] OTHER -> NaN

Add(a, b) ==
  CASE ~IsNumeric(a) \/ ~IsNumeric(b) -> NaN
    [] IsInf(a) /\ IsInf(b) -> IF a.n = b.n THEN a ELSE NaN
    [] IsInf(a) -> a
    [] IsInf(b) -> b
    [] OTHER ->
         LET g == GCD(a.d, b.d)
         IN  Rat(a.n * (b.d \div g) + b.n * (a.d \div g), (a.d \div g) * b.d)

Sub(a, b) == Add(a, Neg(b))

Mul(a, b) ==
  CASE ~IsNumeric(a) \/ ~IsNumeric(b) -> NaN
    [] IsInf(a) \/ IsInf(b) ->
         IF Sign(a) * Sign(b) = 0 THEN NaN ELSE Infinity(Sign(a) * Sign(b))
    [] OTHER ->
         LET g == GCD(Abs(a.n), b.d)
             h == GCD(Abs(b.n), a.d)
         IN  Rat((a.n \div g) * (b.n \div h), (a.d \div h) * (b.d \div g))

Div(a, b) ==
  CASE ~IsNumeric(a) \/ ~IsNumeric(b) -> NaN
    [] IsInf(a) /\ IsInf(b) -> NaN
    [] IsInf(a) -> Infinity(IF Sign(b) < 0 THEN -a.n ELSE a.n)
    [] IsInf(b) -> N(0)
    [] b.n = 0 -> IF a.n = 0 THEN NaN ELSE Infinity(Sign(a))
    [] OTHER -> Mul(a, Rat(b.d, b.n))

\* a < b; false when either is NaN or undefined
Lt(a, b) ==
  CASE ~IsNumeric(a) \/ ~IsNumeric(b) -> FALSE
    [] IsInf(a) /\ IsInf(b) -> a.n < b.n
    [] IsInf(a) -> a.n < 0
    [] IsInf(b) -> b.n > 0
    [] OTHER -> a.n * (b.d \div GCD(a.d, b.d)) < b.n * (a.d \div GCD(a.d, b.d))

Gt(a, b) == Lt(b, a)

\* a === b on numbers
StrictEq(a, b) == IsNumeric(a) /\ IsNumeric(b) /\ a = b

MathMax(a, b) ==
  IF ~IsNumeric(a) \/ ~IsNumeric(b) THEN NaN ELSE IF Lt(a, b) THEN b ELSE a

MathMin(a, b) ==
  IF ~IsNumeric(a) \/ ~IsNumeric(b) THEN NaN ELSE IF Lt(b, a) THEN b ELSE a

RECURSIVE Pow10(_)
Pow10(e) == IF e = 0 THEN 1 ELSE 10 * Pow10(e - 1)

\* the largest r in lo..hi with r * r <= n
RECURSIVE ISqrtIn(_, _, _)
ISqrtIn(n, lo, hi) ==
  IF lo >= hi THEN lo
  ELSE LET mid == (lo + hi + 1) \div 2
       IN  IF mid * mid <= n THEN ISqrtIn(n, mid, hi) ELSE ISqrtIn(n, lo, mid - 1)

\* 46340 is the largest integer whose square fits the checker's integers
ISqrt(n) == ISqrtIn(n, 0, Min(n, 46340))

\* Math.sqrt: exact on the square of a rational, else rounded down to
\* SqrtDigits decimal digits (a double rounds to 53 bits)
MathSqrt(a) ==
  CASE a.k = "inf" -> IF a.n > 0 THEN a ELSE NaN
    [] a.k # "num" -> NaN
    [] a.n < 0 -> NaN
    [] OTHER ->
         LET rn == ISqrt(a.n)
             rd == ISqrt(a.d)
             scale == Pow10(SqrtDigits)
         IN  IF rn * rn = a.n /\ rd * rd = a.d THEN Rat(rn, rd)
             ELSE Rat(ISqrt((a.n * scale * scale) \div a.d), scale)

\* the dead-zone literal 1e-5
Epsilon == Rat(1, 100000)

(***************************************************************************)
(* Arrays: 0-based indices over TLA+ sequences.                            *)
(***************************************************************************)
At(array, i) == IF i >= 0 /\ i < Len(array) THEN array[i + 1] ELSE Undefined

Put(array, i, v) == [array EXCEPT ![i + 1] = v]

\* a write to a Float64Array: dropped when the index is out of range
PutFloat64(array, i, v) ==
  IF i >= 0 /\ i < Len(array)
  THEN [array EXCEPT ![i + 1] = IF IsNumeric(v) THEN v ELSE NaN]
  ELSE array

(***************************************************************************)
(* The windowed formulas.  Both engines hold their own copy of each loop;  *)
(* the copies differ only in how a value is fetched, so each loop is       *)
(* written once here over the sequence of the values it reads.  What does  *)
(* differ between the engines (the RSI's periods, the stochastic's loop    *)
(* bound) is a parameter.                                                  *)
(***************************************************************************)
\* for (let i = startIndex; i <= targetIndex; ++i) of the band functions
RECURSIVE WelfordLoop(_, _, _, _)
WelfordLoop(values, i, targetIndex, acc) ==
  IF i > targetIndex THEN acc
  ELSE Then(Sub(At(values, i), acc.average), LAMBDA delta :
       Then(Add(acc.average, Div(delta, N(acc.count + 1))), LAMBDA average :
       WelfordLoop(values, i + 1, targetIndex,
                   [average |-> average,
                    averageSq |-> Add(acc.averageSq,
                                      Mul(delta, Sub(At(values, i), average))),
                    count |-> acc.count + 1])))

\* the end of a band function with the population variance, which divides
\* by count
BandsOfPopulation(acc) ==
  Then(MathSqrt(IF acc.count <= 1 THEN N(0)
                ELSE Div(acc.averageSq, N(acc.count))), LAMBDA stdev :
  [average |-> acc.average,
   upper |-> Add(acc.average, Mul(N(2), stdev)),
   lower |-> Sub(acc.average, Mul(N(2), stdev))])

\* the end of a band function: variance, stdev and the three results
BandsOf(acc) ==
  Then(MathSqrt(IF acc.count <= 1 THEN N(0)
                ELSE Div(acc.averageSq, N(acc.count - 1))), LAMBDA stdev :
  [average |-> acc.average,
   upper |-> Add(acc.average, Mul(N(2), stdev)),
   lower |-> Sub(acc.average, Mul(N(2), stdev))])

\* a band function whose loop starts one index late
BandsFromNext(values, startIndex, targetIndex) ==
  Then(WelfordLoop(values, startIndex + 1, targetIndex,
                   [average |-> N(0), averageSq |-> N(0), count |-> 0]),
       BandsOf)

\* the body of a band function: average, upper and lower band
Bands(values, startIndex, targetIndex) ==
  Then(WelfordLoop(values, startIndex, targetIndex,
                   [average |-> N(0), averageSq |-> N(0), count |-> 0]),
       BandsOf)

\* up of calculateRsis
RsiUp(delta) == IF Gt(delta, Epsilon) THEN delta ELSE N(0)

\* down of calculateRsis
RsiDown(delta) ==
  IF Gt(delta, Epsilon) THEN N(0)
  ELSE IF Lt(delta, Epsilon) THEN Neg(delta) ELSE N(0)

\* for (let i = from; i <= targetIndex; ++i) of calculateRsis
RECURSIVE RsiLoop(_, _, _, _, _)
RsiLoop(closes, periods, i, targetIndex, acc) ==
  IF i > targetIndex THEN acc
  ELSE Then(Sub(At(closes, i), At(closes, i - 1)), LAMBDA delta :
       RsiLoop(closes, periods, i + 1, targetIndex,
               [upEma |-> Div(Add(Mul(acc.upEma, N(periods - 1)), RsiUp(delta)),
                              N(periods)),
                downEma |-> Div(Add(Mul(acc.downEma, N(periods - 1)), RsiDown(delta)),
                                N(periods))]))

\* the end of calculateRsis: rs and the index
RsiOf(acc) ==
  Sub(N(100), Div(N(100), Add(N(1), IF StrictEq(acc.downEma, N(0)) THEN N(0)
                                    ELSE Div(acc.upEma, acc.downEma))))

\* the body of calculateRsis for one targetIndex
Rsi(closes, periods, from, targetIndex) ==
  Then(RsiLoop(closes, periods, from, targetIndex,
               [upEma |-> N(0), downEma |-> N(0)]),
       RsiOf)

\* for (let i = startIndex; i <= last; ++i) of calculateStochastics
RECURSIVE StochasticLoop(_, _, _, _, _)
StochasticLoop(highs, lows, i, last, acc) ==
  IF i > last THEN acc
  ELSE StochasticLoop(highs, lows, i + 1, last,
                      [high |-> MathMax(acc.high, At(highs, i)),
                       low |-> MathMin(acc.low, At(lows, i))])

\* the end of calculateStochastics without its test of high === low
StochasticOfUnguarded(close, acc) ==
  Mul(N(100), Div(Sub(close, acc.low), Sub(acc.high, acc.low)))

\* the end of calculateStochastics
StochasticOf(close, acc) ==
  IF acc.high = acc.low /\ IsNumeric(acc.high) THEN N(0)
  ELSE Mul(N(100), Div(Sub(close, acc.low), Sub(acc.high, acc.low)))

\* the body of calculateStochastics for one targetIndex
Stochastic(highs, lows, closes, startIndex, last, targetIndex) ==
  Then(StochasticLoop(highs, lows, startIndex, last,
                      [high |-> At(highs, targetIndex),
                       low |-> At(lows, targetIndex)]),
       LAMBDA acc : StochasticOf(At(closes, targetIndex), acc))

\* one round of the loop of calculateMfis that accumulates the delta in the
\* place of the current money flow
MfiStepOfDeltas(acc, currentMoneyFlow, delta) ==
  IF Gt(delta, Epsilon)
  THEN [acc EXCEPT !.positive = Add(@, delta)]
  ELSE IF Lt(delta, Epsilon)
       THEN [acc EXCEPT !.negative = Add(@, delta)]
       ELSE acc

\* one round of the loop of calculateMfis
MfiStep(acc, currentMoneyFlow, delta) ==
  IF Gt(delta, Epsilon)
  THEN [acc EXCEPT !.positive = Add(@, currentMoneyFlow)]
  ELSE IF Lt(delta, Epsilon)
       THEN [acc EXCEPT !.negative = Add(@, currentMoneyFlow)]
       ELSE acc

\* for (let i = from; i <= targetIndex; ++i) of calculateMfis
RECURSIVE MfiLoop(_, _, _, _, _)
MfiLoop(hlc3s, volumes, i, targetIndex, acc) ==
  IF i > targetIndex THEN acc
  ELSE Then(Mul(At(hlc3s, i), At(volumes, i)), LAMBDA currentMoneyFlow :
       MfiLoop(hlc3s, volumes, i + 1, targetIndex,
               MfiStep(acc, currentMoneyFlow,
                       Sub(currentMoneyFlow,
                           Mul(At(hlc3s, i - 1), At(volumes, i - 1))))))

\* the end of calculateMfis: the money flow ratio and the index
MfiOf(acc) ==
  Sub(N(100), Div(N(100), Add(N(1), IF StrictEq(acc.negative, N(0)) THEN N(0)
                                    ELSE Div(acc.positive, acc.negative))))

\* the body of calculateMfis for one targetIndex
Mfi(hlc3s, volumes, from, targetIndex) ==
  Then(MfiLoop(hlc3s, volumes, from, targetIndex,
               [positive |-> N(0), negative |-> N(0)]),
       MfiOf)

\* array.sort((a, b) => a - b) of numbers, by insertion
RECURSIVE Insert(_, _)
Insert(sorted, v) ==
  IF sorted = <<>> THEN <<v>>
  ELSE IF Lt(v, Head(sorted)) THEN <<v>> \o sorted
       ELSE <<Head(sorted)>> \o Insert(Tail(sorted), v)

RECURSIVE Sort(_)
Sort(values) ==
  IF values = <<>> THEN <<>> ELSE Insert(Sort(Tail(values)), Head(values))

\* Math.trunc(n / 2) for n >= 0
HalfTrunc(n) == n \div 2

(***************************************************************************)
(* The Row-Store engine, src/ohlc.js.                                      *)
(***************************************************************************)
\* new Ohlc({ date, open, high, low, close, volume })
Ohlc(o) ==
  [date |-> o.date, open |-> o.open, high |-> o.high, low |-> o.low,
   close |-> o.close, volume |-> o.volume,
   hl2 |-> N(0), hl2Average |-> N(0), hl2StdevUpper |-> N(0), hl2StdevLower |-> N(0),
   hlc3 |-> N(0), hlc3Average |-> N(0), hlc3StdevUpper |-> N(0), hlc3StdevLower |-> N(0),
   ohlc4 |-> N(0), ohlc4Average |-> N(0), ohlc4StdevUpper |-> N(0), ohlc4StdevLower |-> N(0),
   rsi |-> N(0), stochastic |-> N(0), mfi |-> N(0)]

\* the values of one field over the records, ohlcs[i].field
Field(array, f) == [i \in 1..Len(array) |-> array[i][f]]

\* a calculatehl2 that adds the midpoint to the hl2 the record holds
Ohlc_calculatehl2Added(o) == [o EXCEPT !.hl2 = Add(@, Div(Add(o.high, o.low), N(2)))]

Ohlc_calculatehl2(o) == [o EXCEPT !.hl2 = Div(Add(o.high, o.low), N(2))]

Ohlc_calculateHlc3(o) ==
  [o EXCEPT !.hlc3 = Div(Add(Add(o.high, o.low), o.close), N(3))]

Ohlc_calculateohlc4(o) ==
  [o EXCEPT !.ohlc4 = Div(Add(Add(Add(o.open, o.high), o.low), o.close), N(4))]

Ohlc_calculatehl2Bands(array, startIndex, targetIndex) ==
  Then(Bands(Field(array, "hl2"), startIndex, targetIndex), LAMBDA b :
  Put(array, targetIndex,
      [At(array, targetIndex) EXCEPT !.hl2Average = b.average,
                                     !.hl2StdevUpper = b.upper,
                                     !.hl2StdevLower = b.lower]))

Ohlc_calculateHlc3Bands(array, startIndex, targetIndex) ==
  Then(Bands(Field(array, "hlc3"), startIndex, targetIndex), LAMBDA b :
  Put(array, targetIndex,
      [At(array, targetIndex) EXCEPT !.hlc3Average = b.average,
                                     !.hlc3StdevUpper = b.upper,
                                     !.hlc3StdevLower = b.lower]))

Ohlc_calculateohlc4Bands(array, startIndex, targetIndex) ==
  Then(Bands(Field(array, "ohlc4"), startIndex, targetIndex), LAMBDA b :
  Put(array, targetIndex,
      [At(array, targetIndex) EXCEPT !.ohlc4Average = b.average,
                                     !.ohlc4StdevUpper = b.upper,
                                     !.ohlc4StdevLower = b.lower]))

\* periods is the length of the window it is handed, which is clamped
Ohlc_calculateRsis(array, startIndex, targetIndex) ==
  Put(array, targetIndex,
      [At(array, targetIndex) EXCEPT
         !.rsi = Rsi(Field(array, "close"), targetIndex - startIndex + 1,
                     startIndex + 1, targetIndex)])

\* the loop runs over i < targetIndex
Ohlc_calculateStochastics(array, startIndex, targetIndex) ==
  Put(array, targetIndex,
      [At(array, targetIndex) EXCEPT
         !.stochastic = Stochastic(Field(array, "high"), Field(array, "low"),
                                   Field(array, "close"), startIndex,
                                   targetIndex - 1, targetIndex)])

Ohlc_calculateMfis(array, startIndex, targetIndex) ==
  Put(array, targetIndex,
      [At(array, targetIndex) EXCEPT
         !.mfi = Mfi(Field(array, "hlc3"), Field(array, "volume"),
                     startIndex + 1, targetIndex)])

\* ohlcs[targetIndex].calculatehl2()
Ohlc_calculatehl2At(array, targetIndex) ==
  Put(array, targetIndex, Ohlc_calculatehl2(At(array, targetIndex)))

\* ohlcs[targetIndex].calculateHlc3()
Ohlc_calculateHlc3At(array, targetIndex) ==
  Put(array, targetIndex, Ohlc_calculateHlc3(At(array, targetIndex)))

\* ohlcs[targetIndex].calculateohlc4()
Ohlc_calculateohlc4At(array, targetIndex) ==
  Put(array, targetIndex, Ohlc_calculateohlc4(At(array, targetIndex)))

\* one iteration of a loop of Ohlc.calculateAll that computes the hl2 bands
\* before the hl2 of the record
Ohlc_calculateAllBodyBandsFirst(array, clampedStartIndex, targetIndex) ==
      Then(Ohlc_calculatehl2Bands(array, clampedStartIndex, targetIndex), LAMBDA a1 :
      Then(Ohlc_calculatehl2At(a1, targetIndex), LAMBDA a2 :
      Then(Ohlc_calculateHlc3At(a2, targetIndex), LAMBDA a3 :
      Then(Ohlc_calculateHlc3Bands(a3, clampedStartIndex, targetIndex), LAMBDA a4 :
      Then(Ohlc_calculateohlc4At(a4, targetIndex), LAMBDA a5 :
      Then(Ohlc_calculateohlc4Bands(a5, clampedStartIndex, targetIndex), LAMBDA a6 :
      Then(Ohlc_calculateRsis(a6, clampedStartIndex, targetIndex), LAMBDA a7 :
      Then(Ohlc_calculateStochastics(a7, clampedStartIndex, targetIndex), LAMBDA a8 :
      Ohlc_calculateMfis(a8, clampedStartIndex, targetIndex)))))))))

\* one iteration of a loop of Ohlc.calculateAll that computes the midpoint of
\* the record after targetIndex as well
Ohlc_calculateAllBodyAhead(array, clampedStartIndex, targetIndex) ==
      Then(Ohlc_calculatehl2At(array, targetIndex), LAMBDA a1 :
      Then(Ohlc_calculatehl2Bands(a1, clampedStartIndex, targetIndex), LAMBDA a2 :
      Then(Ohlc_calculateHlc3At(a2, targetIndex), LAMBDA a3 :
      Then(Ohlc_calculateHlc3Bands(a3, clampedStartIndex, targetIndex), LAMBDA a4 :
      Then(Ohlc_calculateohlc4At(a4, targetIndex), LAMBDA a5 :
      Then(Ohlc_calculateohlc4Bands(a5, clampedStartIndex, targetIndex), LAMBDA a6 :
      Then(Ohlc_calculateRsis(a6, clampedStartIndex, targetIndex), LAMBDA a7 :
      Then(Ohlc_calculateStochastics(a7, clampedStartIndex, targetIndex), LAMBDA a8 :
      Then(Ohlc_calculateMfis(a8, clampedStartIndex, targetIndex), LAMBDA a9 :
      IF targetIndex + 1 < Len(a9) THEN Ohlc_calculatehl2At(a9, targetIndex + 1)
      ELSE a9)))))))))

\* one iteration of the loop of Ohlc.calculateAll: its nine statements, each
\* applied to the array the one before it left
Ohlc_calculateAllBody(array, clampedStartIndex, targetIndex) ==
      Then(Ohlc_calculatehl2At(array, targetIndex), LAMBDA a1 :
      Then(Ohlc_calculatehl2Bands(a1, clampedStartIndex, targetIndex), LAMBDA a2 :
      Then(Ohlc_calculateHlc3At(a2, targetIndex), LAMBDA a3 :
      Then(Ohlc_calculateHlc3Bands(a3, clampedStartIndex, targetIndex), LAMBDA a4 :
      Then(Ohlc_calculateohlc4At(a4, targetIndex), LAMBDA a5 :
      Then(Ohlc_calculateohlc4Bands(a5, clampedStartIndex, targetIndex), LAMBDA a6 :
      Then(Ohlc_calculateRsis(a6, clampedStartIndex, targetIndex), LAMBDA a7 :
      Then(Ohlc_calculateStochastics(a7, clampedStartIndex, targetIndex), LAMBDA a8 :
      Ohlc_calculateMfis(a8, clampedStartIndex, targetIndex)))))))))

\* medianClose .. medianMfi: shallowCopy[Math.trunc(length / 2)].field, which
\* throws a TypeError when the element is undefined
Ohlc_median(array, f) ==
  IF HalfTrunc(Len(array)) >= Len(array) THEN [threw |-> TRUE, value |-> Undefined]
  ELSE [threw |-> FALSE, value |-> At(Sort(Field(array, f)), HalfTrunc(Len(array)))]

MedianFields == <<"close", "volume", "hlc3", "rsi", "stochastic", "mfi">>

\* the return statement of Ohlc.calculateAll
Ohlc_calculateAllReturn(array) ==
  IF \E i \in 1..Len(MedianFields) : Ohlc_median(array, MedianFields[i]).threw
  THEN [status |-> "threw", error |-> "TypeError"]
  ELSE [status |-> "returned",
        medians |-> [f \in {MedianFields[i] : i \in 1..Len(MedianFields)} |->
                       Ohlc_median(array, f).value]]

(***************************************************************************)
(* The Column-Store engine, src/ohlc_system.js.                            *)
(***************************************************************************)
\* new Float64Array(buffer, offset, capacity): zero-filled
Float64Array(capacity) == [i \in 1..capacity |-> N(0)]

Hole == [k |-> "hole"]

\* new Array(capacity): nothing but holes
NewArray(capacity) == [i \in 1..capacity |-> Hole]

\* new OhlcSystem(capacity)
OhlcSystem(capacity) ==
  [length |-> 0,
   opens |-> Float64Array(capacity), highs |-> Float64Array(capacity),
   lows |-> Float64Array(capacity), closes |-> Float64Array(capacity),
   volumes |-> Float64Array(capacity),
   hl2s |-> Float64Array(capacity), hl2Averages |-> Float64Array(capacity),
   hl2StdevUppers |-> Float64Array(capacity), hl2StdevLowers |-> Float64Array(capacity),
   hlc3s |-> Float64Array(capacity), hlc3Averages |-> Float64Array(capacity),
   hlc3StdevUppers |-> Float64Array(capacity), hlc3StdevLowers |-> Float64Array(capacity),
   ohlc4s |-> Float64Array(capacity), ohlc4Averages |-> Float64Array(capacity),
   ohlc4StdevUppers |-> Float64Array(capacity), ohlc4StdevLowers |-> Float64Array(capacity),
   rsis |-> Float64Array(capacity), stochastics |-> Float64Array(capacity),
   mfis |-> Float64Array(capacity),
   dates |-> NewArray(capacity)]

\* for (targetIndex = 0; targetIndex < length; ++targetIndex) array[targetIndex] = F(targetIndex),
\* where F reads other arrays only; a write past the end of the array is dropped
FillFloat64(array, length, F(_)) ==
  [j \in 1..Len(array) |->
     IF j - 1 < length
     THEN Then(F(j - 1), LAMBDA v : IF IsNumeric(v) THEN v ELSE NaN)
     ELSE array[j]]

OhlcSystem_calculatehl2s(sys) ==
  [sys EXCEPT !.hl2s = FillFloat64(sys.hl2s, sys.length, LAMBDA i :
     Div(Add(At(sys.highs, i), At(sys.lows, i)), N(2)))]

OhlcSystem_calculateHlc3s(sys) ==
  [sys EXCEPT !.hlc3s = FillFloat64(sys.hlc3s, sys.length, LAMBDA i :
     Div(Add(Add(At(sys.highs, i), At(sys.lows, i)), At(sys.closes, i)), N(3)))]

OhlcSystem_calculateohlc4s(sys) ==
  [sys EXCEPT !.ohlc4s = FillFloat64(sys.ohlc4s, sys.length, LAMBDA i :
     Div(Add(Add(Add(At(sys.opens, i), At(sys.highs, i)), At(sys.lows, i)),
             At(sys.closes, i)), N(4)))]

\* the three arrays a band function writes, from the bands of each targetIndex
WriteBands(averages, uppers, lowers, length, bands) ==
  [averages |-> FillFloat64(averages, length, LAMBDA t : At(bands, t).average),
   uppers |-> FillFloat64(uppers, length, LAMBDA t : At(bands, t).upper),
   lowers |-> FillFloat64(lowers, length, LAMBDA t : At(bands, t).lower)]

\* the bands of every targetIndex below length
AllBands(values, length, window) ==
  [j \in 1..length |-> Bands(values, Max(0, -(window - 1) + (j - 1)), j - 1)]

OhlcSystem_calculatehl2Bands(sys, window) ==
  Then(WriteBands(sys.hl2Averages, sys.hl2StdevUppers, sys.hl2StdevLowers,
                  sys.length, AllBands(sys.hl2s, sys.length, window)), LAMBDA w :
  [sys EXCEPT !.hl2Averages = w.averages,
              !.hl2StdevUppers = w.uppers,
              !.hl2StdevLowers = w.lowers])

OhlcSystem_calculateHlc3Bands(sys, window) ==
  Then(WriteBands(sys.hlc3Averages, sys.hlc3StdevUppers, sys.hlc3StdevLowers,
                  sys.length, AllBands(sys.hlc3s, sys.length, window)), LAMBDA w :
  [sys EXCEPT !.hlc3Averages = w.averages,
              !.hlc3StdevUppers = w.uppers,
              !.hlc3StdevLowers = w.lowers])

OhlcSystem_calculateohlc4Bands(sys, window) ==
  Then(WriteBands(sys.ohlc4Averages, sys.ohlc4StdevUppers, sys.ohlc4StdevLowers,
                  sys.length, AllBands(sys.ohlc4s, sys.length, window)), LAMBDA w :
  [sys EXCEPT !.ohlc4Averages = w.averages,
              !.ohlc4StdevUppers = w.uppers,
              !.ohlc4StdevLowers = w.lowers])

\* periods is computed from the startIndex of the for statement, which is
\* not clamped; the loop starts at the clamped one
OhlcSystem_calculateRsis(sys, window) ==
  [sys EXCEPT !.rsis = FillFloat64(sys.rsis, sys.length, LAMBDA t :
     Rsi(sys.closes, t - (-(window - 1) + t) + 1,
         Max(0, -(window - 1) + t) + 1, t))]

\* the loop runs over i <= targetIndex
OhlcSystem_calculateStochastics(sys, window) ==
  [sys EXCEPT !.stochastics = FillFloat64(sys.stochastics, sys.length, LAMBDA t :
     Stochastic(sys.highs, sys.lows, sys.closes, Max(0, -(window - 1) + t), t, t))]

OhlcSystem_calculateMfis(sys, window) ==
  [sys EXCEPT !.mfis = FillFloat64(sys.mfis, sys.length, LAMBDA t :
     Mfi(sys.hlc3s, sys.volumes, Max(0, -(window - 1) + t) + 1, t))]

\* how many statements OhlcSystem.calculateAll runs before its return
Passes == 9

\* the p-th statement of OhlcSystem.calculateAll
OhlcSystem_calculateAllPass(sys, window, p) ==
  CASE p = 1 -> OhlcSystem_calculatehl2s(sys)
    [] p = 2 -> OhlcSystem_calculatehl2Bands(sys, window)
    [] p = 3 -> OhlcSystem_calculateHlc3s(sys)
    [] p = 4 -> OhlcSystem_calculateHlc3Bands(sys, window)
    [] p = 5 -> OhlcSystem_calculateohlc4s(sys)
    [] p = 6 -> OhlcSystem_calculateohlc4Bands(sys, window)
    [] p = 7 -> OhlcSystem_calculateRsis(sys, window)
    [] p = 8 -> OhlcSystem_calculateStochastics(sys, window)
    [] p = 9 -> OhlcSystem_calculateMfis(sys, window)

\* values.slice(0, this.length)
Slice(array, from, to) == SubSeq(array, from + 1, Min(to, Len(array)))

\* median (values): undefined when the copy has no element there
OhlcSystem_median(sys, values) ==
  At(Sort(Slice(values, 0, sys.length)), HalfTrunc(sys.length))

\* the return statement of OhlcSystem.calculateAll
OhlcSystem_calculateAllReturn(sys) ==
  [status |-> "returned",
   medians |-> [close |-> OhlcSystem_median(sys, sys.closes),
                volume |-> OhlcSystem_median(sys, sys.volumes),
                hlc3 |-> OhlcSystem_median(sys, sys.hlc3s),
                rsi |-> OhlcSystem_median(sys, sys.rsis),
                stochastic |-> OhlcSystem_median(sys, sys.stochastics),
                mfi |-> OhlcSystem_median(sys, sys.mfis)]]

(***************************************************************************)
(* Filling and finishing the datasets: src/util/ohlc_utils.js and          *)
(* src/util/alg_utils.js.                                                  *)
(***************************************************************************)
\* array[i] = v on an Array: the array grows, leaving holes, when i is past its end
PutArray(array, i, v) ==
  IF i < Len(array) THEN [array EXCEPT ![i + 1] = v]
  ELSE array \o [j \in 1..(i - Len(array)) |-> Hole] \o <<v>>

\* array.filter(e => e): holes are not visited, undefined and '' are falsy
FilterTruthy(array) ==
  SelectSeq(array, LAMBDA e : e # Hole /\ e # Undefined /\ e # Str(<<>>))

\* array.reverse()
Reverse(array) == [i \in 1..Len(array) |-> array[Len(array) + 1 - i]]

\* a reversal that takes the whole array whatever maxLength is
AlgUtils_reverseWhole(array, maxLength) ==
  [i \in 1..Len(array) |-> array[Len(array) + 1 - i]]

\* the loop of AlgUtils.reverseMinLength
RECURSIVE ReverseLoop(_, _, _)
ReverseLoop(array, i, j) ==
  IF i < j
  THEN ReverseLoop([array EXCEPT ![i + 1] = array[j + 1], ![j + 1] = array[i + 1]],
                   i + 1, j - 1)
  ELSE array

AlgUtils_reverseMinLength(array, maxLength) ==
  ReverseLoop(array, 0, Min(maxLength, Len(array)) - 1)

\* the samples of sampleArray and sampleFloat64Array before the tail is cut,
\* for length > 0 and samples > 0: a copy when length <= samples, else
\* samples elements n apart, the last one being the last of the array
SampleEvenly(array, length, samples) ==
  IF length <= samples THEN Slice(array, 0, length)
  ELSE [s \in 1..samples |->
          At(array, ((length - 1) - (length \div samples) * (samples - 1))
                    + (s - 1) * (length \div samples))]

\* if (sampleArray.length > tail) sampleArray = sampleArray.slice(length - tail, length)
SliceTail(sampleArray, tail) ==
  IF Len(sampleArray) > tail
  THEN SubSeq(sampleArray, Len(sampleArray) - tail + 1, Len(sampleArray))
  ELSE sampleArray

\* AlgUtils.sampleArray (array, samples, tail)
AlgUtils_sampleArray(array, samples, tail) ==
  [threw |-> FALSE,
   value |-> SliceTail(IF Len(array) = 0 \/ samples = 0 THEN <<>>
                       ELSE SampleEvenly(array, Len(array), samples), tail)]

\* an element read into a Float64Array: what is not a number becomes NaN
ToFloat64(array) ==
  [i \in 1..Len(array) |-> IF IsNumeric(array[i]) THEN array[i] ELSE NaN]

\* AlgUtils.sampleFloat64Array (array, length, samples, tail): Float64Array(0)
\* is called without new, which throws a TypeError
AlgUtils_sampleFloat64Array(array, length, samples, tail) ==
  IF length = 0 \/ samples = 0 THEN [threw |-> TRUE, value |-> Undefined]
  ELSE [threw |-> FALSE,
        value |-> SliceTail(ToFloat64(SampleEvenly(array, length, samples)), tail)]

\* ChartUtils.writeOhlcsSamples: the four files are projections of sampleArray
ChartUtils_writeOhlcsSamples(array, samples, tail) ==
  [status |-> "written", sampleArray |-> AlgUtils_sampleArray(array, samples, tail).value]

\* the arrays ChartUtils.writeOhlcSystemSamples samples with ohlcSystem.length
ChartArrays ==
  {"closes", "hl2Averages", "hl2StdevUppers", "hl2StdevLowers",
   "hlc3s", "hlc3Averages", "hlc3StdevUppers", "hlc3StdevLowers",
   "ohlc4s", "ohlc4Averages", "ohlc4StdevUppers", "ohlc4StdevLowers",
   "rsis", "stochastics", "mfis"}

\* ChartUtils.writeOhlcSystemSamples: every sample is taken before the file
\* that holds it is written, so a throw leaves the files unwritten.  hl2s is
\* sampled with (samples, tail) in the place of (length, samples, tail)
ChartUtils_writeOhlcSystemSamples(sys, samples, tail) ==
  IF \/ AlgUtils_sampleFloat64Array(sys.closes, sys.length, samples, tail).threw
     \/ AlgUtils_sampleFloat64Array(sys.hl2s, samples, tail, 0).threw
  THEN [status |-> "threw", error |-> "TypeError"]
  ELSE [status |-> "written",
        dates |-> AlgUtils_sampleArray(sys.dates, samples, tail).value,
        hl2s |-> AlgUtils_sampleFloat64Array(sys.hl2s, samples, tail, 0).value,
        arrays |-> [f \in ChartArrays |->
                      AlgUtils_sampleFloat64Array(sys[f], sys.length, samples, tail).value]]

\* appendOhlcFunc of parseOhlcsFromCsvWithCustom: ohlcs.push(new Ohlc(ohlc))
AppendOhlcs(array, o) == Append(array, Ohlc(o))

\* appendOhlcFunc of parseOhlcSystemFromCsvWithCustom
AppendOhlcSystem(sys, o) ==
  LET i == sys.length
  IN  [sys EXCEPT !.opens = PutFloat64(@, i, o.open),
                  !.highs = PutFloat64(@, i, o.high),
                  !.lows = PutFloat64(@, i, o.low),
                  !.closes = PutFloat64(@, i, o.close),
                  !.volumes = PutFloat64(@, i, o.volume),
                  !.dates = PutArray(@, i, o.date),
                  !.length = i + 1]

OhlcUtils_finishParseOhlcsFromCsv(array) == Reverse(FilterTruthy(array))

OhlcUtils_finishParseOhlcSystemFromCsv(sys) ==
  [sys EXCEPT !.opens = AlgUtils_reverseMinLength(@, sys.length),
              !.highs = AlgUtils_reverseMinLength(@, sys.length),
              !.lows = AlgUtils_reverseMinLength(@, sys.length),
              !.closes = AlgUtils_reverseMinLength(@, sys.length),
              !.volumes = AlgUtils_reverseMinLength(@, sys.length),
              !.dates = Reverse(FilterTruthy(@))]

(***************************************************************************)
(* Buffers and strings: sequences of byte codes.  The files of the model   *)
(* are made of digits, letters, spaces, commas and newlines.               *)
(***************************************************************************)
Comma == 44

Newline == 10

Space == 32

\* buffer.indexOf(value, byteOffset) for byteOffset >= 0
RECURSIVE IndexOf(_, _, _)
IndexOf(buffer, value, byteOffset) ==
  IF byteOffset >= Len(buffer) THEN -1
  ELSE IF buffer[byteOffset + 1] = value THEN byteOffset
       ELSE IndexOf(buffer, value, byteOffset + 1)

\* source.copy(target, targetStart, sourceStart, sourceEnd): target afterwards.
\* Nothing is copied when targetStart is past the target or the source range
\* is empty or reversed; what does not fit the target is cut off.
BufferCopy(source, targetBuffer, targetStart, sourceStart, sourceEnd) ==
  IF targetStart >= Len(targetBuffer) \/ sourceStart >= sourceEnd THEN targetBuffer
  ELSE [i \in 1..Len(targetBuffer) |->
          IF /\ i - 1 >= targetStart
             /\ (i - 1 - targetStart) + sourceStart < Min(sourceEnd, Len(source))
          THEN source[(i - 1 - targetStart) + sourceStart + 1]
          ELSE targetBuffer[i]]

\* buffer.toString('ascii', 0, end): end is clamped to the buffer
Buffer_toString(buffer, end) ==
  IF end <= 0 THEN <<>> ELSE SubSeq(buffer, 1, Min(end, Len(buffer)))

IsWhitespace(byte) == byte \in {9, 10, 11, 12, 13, 32}

\* str.trim()
RECURSIVE TrimStart(_)
TrimStart(str) ==
  IF str # <<>> /\ IsWhitespace(Head(str)) THEN TrimStart(Tail(str)) ELSE str

RECURSIVE TrimEnd(_)
TrimEnd(str) ==
  IF str # <<>> /\ IsWhitespace(str[Len(str)])
  THEN TrimEnd(SubSeq(str, 1, Len(str) - 1)) ELSE str

Trim(str) == TrimEnd(TrimStart(str))

\* str.split(' ')[0]
SplitFirst(str) ==
  IF IndexOf(str, Space, 0) = -1 THEN str
  ELSE SubSeq(str, 1, IndexOf(str, Space, 0))

IsDigit(byte) == byte >= 48 /\ byte <= 57

\* the value of the longest prefix of digits of str, read after acc
RECURSIVE DigitsValue(_, _)
DigitsValue(str, acc) ==
  IF str # <<>> /\ IsDigit(Head(str))
  THEN DigitsValue(Tail(str), 10 * acc + (Head(str) - 48))
  ELSE acc

\* parseFloat(str) on the strings of the model: leading whitespace is
\* skipped, the longest prefix of digits is the number, none is NaN
ParseFloat(str) ==
  IF TrimStart(str) # <<>> /\ IsDigit(Head(TrimStart(str)))
  THEN N(DigitsValue(TrimStart(str), 0))
  ELSE NaN

(***************************************************************************)
(* OhlcUtils.parseFromCsvWithCustom.  The 'readable' listener works on a   *)
(* record h of what it reads and writes: the closure variables lineCount,  *)
(* colIndex, colText, colTextSize and ohlc, the dataset behind             *)
(* appendOhlcFunc, the locals cursor, nextCursor, delimIndex and           *)
(* lineIndex, and thrown, the Error that has left the listener if any.     *)
(* Once thrown is set, no later statement of the listener runs.            *)
(***************************************************************************)
\* appendOhlcFunc (ohlc) of the two targets
AppendOhlcFunc(h) ==
  IF h.target = "ohlcs"
  THEN [h EXCEPT !.ohlcs = AppendOhlcs(@, h.ohlc)]
  ELSE [h EXCEPT !.ohlcSystem = AppendOhlcSystem(@, h.ohlc)]

\* switch (colIndex++) { ... } of parseCol
SwitchCol(h, str) ==
  CASE h.colIndex = 1 ->
         [h EXCEPT !.ohlc.date = Str(SplitFirst(str)), !.colIndex = @ + 1]
    [] h.colIndex = 3 -> [h EXCEPT !.ohlc.open = ParseFloat(str), !.colIndex = @ + 1]
    [] h.colIndex = 4 -> [h EXCEPT !.ohlc.high = ParseFloat(str), !.colIndex = @ + 1]
    [] h.colIndex = 5 -> [h EXCEPT !.ohlc.low = ParseFloat(str), !.colIndex = @ + 1]
    [] h.colIndex = 6 -> [h EXCEPT !.ohlc.close = ParseFloat(str), !.colIndex = @ + 1]
    [] h.colIndex = 7 ->
         [AppendOhlcFunc([h EXCEPT !.ohlc.volume = ParseFloat(str)])
            EXCEPT !.colIndex = 0]
    [] OTHER -> [h EXCEPT !.colIndex = @ + 1]

\* the statements of parseCol from buffer.copy to colTextSize = 0
ReadCol(h, buffer) ==
  Then(BufferCopy(buffer, h.colText, h.colTextSize, h.cursor, h.nextCursor),
       LAMBDA copied :
  [SwitchCol([h EXCEPT !.colText = copied],
             Trim(Buffer_toString(copied,
                                  h.colTextSize + (h.nextCursor - h.cursor))))
     EXCEPT !.colTextSize = 0])

\* const parseCol = (isLineEnd) => { ... }
ParseCol(h, buffer, isLineEnd) ==
  IF h.thrown # <<>> THEN h
  ELSE IF h.lineCount >= h.csvFromLine
       THEN IF isLineEnd /\ h.colIndex # 7
            THEN [h EXCEPT !.thrown = <<[line |-> h.lineCount,
                                         colIndex |-> h.colIndex]>>]
            ELSE [ReadCol(h, buffer) EXCEPT !.cursor = h.nextCursor + 1]
       ELSE [h EXCEPT !.cursor = h.nextCursor + 1]

\* ++lineCount and what follows it, which a throw of parseCol skips
Unless(h, F(_)) == IF h.thrown # <<>> THEN h ELSE F(h)

\* if (nextCursor === lineIndex) { ... } of the inner loop
InnerLineEnd(h, buffer) ==
  IF h.nextCursor = h.lineIndex
  THEN Unless(ParseCol(h, buffer, TRUE), LAMBDA g :
         [g EXCEPT !.lineCount = @ + 1,
                   !.lineIndex = IndexOf(buffer, Newline, g.lineIndex + 1),
                   !.nextCursor = Max(0, g.delimIndex)])
  ELSE h

\* if (nextCursor === delimIndex) parseCol(false)
InnerDelim(h, buffer) ==
  IF h.thrown = <<>> /\ h.nextCursor = h.delimIndex
  THEN ParseCol(h, buffer, FALSE) ELSE h

\* delimIndex = buffer.indexOf(44, delimIndex + 1) and nextCursor = Math.max(...)
InnerScan(h, buffer) ==
  Then(IndexOf(buffer, Comma, h.delimIndex + 1), LAMBDA delimIndex :
  [h EXCEPT !.delimIndex = delimIndex,
            !.nextCursor =
               Max(0, Min(IF h.lineIndex = -1 THEN delimIndex ELSE h.lineIndex,
                          IF delimIndex = -1 THEN h.lineIndex ELSE delimIndex))])

\* do { ... } while (delimIndex !== -1)
RECURSIVE InnerLoop(_, _)
InnerLoop(h, buffer) ==
  Then(InnerDelim(InnerLineEnd(InnerScan(h, buffer), buffer), buffer), LAMBDA g :
  IF g.thrown = <<>> /\ g.delimIndex # -1 THEN InnerLoop(g, buffer) ELSE g)

\* nextCursor = Math.max(0, lineIndex); if (nextCursor === lineIndex) { ... }
OuterLineEnd(h, buffer) ==
  IF h.thrown = <<>> /\ Max(0, h.lineIndex) = h.lineIndex
  THEN Unless(ParseCol([h EXCEPT !.nextCursor = Max(0, h.lineIndex)], buffer, TRUE),
              LAMBDA g : [g EXCEPT !.lineCount = @ + 1])
  ELSE Unless(h, LAMBDA g : [g EXCEPT !.nextCursor = Max(0, g.lineIndex)])

\* do { ... } while (lineIndex !== -1)
RECURSIVE OuterLoop(_, _)
OuterLoop(h, buffer) ==
  Then(OuterLineEnd(
         InnerLoop([h EXCEPT !.lineIndex = IndexOf(buffer, Newline, h.lineIndex + 1)],
                   buffer),
         buffer), LAMBDA g :
  IF g.thrown = <<>> /\ g.lineIndex # -1 THEN OuterLoop(g, buffer) ELSE g)

\* capture the end of the buffer before wrapping to the next
CaptureEnd(h, buffer) ==
  [h EXCEPT !.colText = BufferCopy(buffer, h.colText, h.colTextSize,
                                   h.cursor, Len(buffer)),
            !.colTextSize = Len(buffer) - h.cursor]

\* while ((buffer = readStream.read()) != null) { ... }: read() hands out
\* buffers until the stream has none left; starts records what cursor is
\* when the body begins
RECURSIVE ReadLoop(_, _)
ReadLoop(h, buffers) ==
  IF h.thrown # <<>> \/ buffers = <<>> THEN h
  ELSE ReadLoop(Unless(OuterLoop([h EXCEPT !.delimIndex = -1, !.lineIndex = -1,
                                           !.starts = Append(@, h.cursor)],
                                 Head(buffers)),
                       LAMBDA g : CaptureEnd(g, Head(buffers))),
                Tail(buffers))

\* the 'readable' listener: let cursor = 0; let nextCursor = 0; ...
OnReadable(h, buffers) ==
  ReadLoop([h EXCEPT !.cursor = 0, !.nextCursor = 0, !.thrown = <<>>], buffers)

(***************************************************************************)
(* The parser at work: fs.createReadStream hands the bytes of the file to  *)
(* the 'readable' listener in chunks of any size, one buffer per event,    *)
(* then emits 'end'; an I/O failure emits 'error' instead.  An Error       *)
(* thrown by the listener is an uncaught exception, which index.js logs    *)
(* (process.on('uncaughtException')); the stream goes on.                  *)
(***************************************************************************)
ColBufferSize == 6   \* +process.env.CSV_COL_BUFFER_SIZE

\* ",7 9,,12,3,4,5,6": date 7 with a time, open 12
RowA == <<44, 55, 32, 57, 44, 44, 49, 50, 44, 51, 44, 52, 44, 53, 44, 54>>

\* ",8,,1,2,3,4,5"
RowB == <<44, 56, 44, 44, 49, 44, 50, 44, 51, 44, 52, 44, 53>>

\* ",,,2,3,4,5,6": the date is empty
RowE == <<44, 44, 44, 50, 44, 51, 44, 52, 44, 53, 44, 54>>

\* ",8,,1,2,3,4": 7 columns
Row7 == <<44, 56, 44, 44, 49, 44, 50, 44, 51, 44, 52>>

\* 9 columns
Row9 == RowB \o <<44, 54>>

\* 16 columns
Row16 == RowB \o <<44>> \o RowB

\* "h": a header line
Header == <<104>>

\* the bytes of a file of these lines; the last one may lack its terminator
RECURSIVE Join(_, _)
Join(lines, terminated) ==
  IF lines = <<>> THEN <<>>
  ELSE IF Len(lines) = 1 /\ ~terminated THEN Head(lines)
       ELSE Head(lines) \o <<Newline>> \o Join(Tail(lines), terminated)

Files ==
  { Join(<<RowB, RowA>>, TRUE), Join(<<RowB, RowA>>, FALSE),
    Join(<<RowB, RowE>>, TRUE), Join(<<Header, RowA>>, TRUE),
    Join(<<Header, Row9>>, TRUE), Join(<<Row16>>, TRUE),
    Join(<<Row7, RowB>>, TRUE), Join(<<Header, Header, RowB>>, TRUE), <<>> }

\* FileUtils.lineCount: the newlines of the file and one more
FileUtils_lineCount(bytes) ==
  Cardinality({i \in 1..Len(bytes) : bytes[i] = Newline}) + 1

\* the row builder: { date: '', open: 0.0, ... }
NewOhlc ==
  [date |-> Str(<<>>), open |-> N(0), high |-> N(0), low |-> N(0),
   close |-> N(0), volume |-> N(0)]

\* no chart has been asked for
ChartIdle ==
  /\ chartSamples = 0 /\ chartTail = 0
  /\ rowChart = [status |-> "pending"] /\ colChart = [status |-> "pending"]

EngineIdle ==
  /\ calcWindow = 0 /\ pc = "parse" /\ rowTargetIndex = 0 /\ pass = 0
  /\ rowReturn = [status |-> "pending"] /\ colReturn = [status |-> "pending"]
  /\ ChartIdle

\* parseOhlcsFromCsvWithCustom or parseOhlcSystemFromCsv has been called and
\* no event has been delivered yet
Init ==
  /\ file \in Files
  /\ csvFromLine \in 0..2
  /\ target \in {"ohlcs", "ohlcSystem"}
  /\ capacityHint \in {0, 1}
  /\ pos = 0
  /\ lineCount = 0 /\ colIndex = 0
  /\ \E fill \in {0, 120} : colText = [i \in 1..ColBufferSize |-> fill]
  /\ colTextSize = 0
  /\ ohlc = NewOhlc
  /\ errors = <<>> /\ settled = "pending" /\ result = Undefined
  /\ finishCount = 0
  /\ chunkStarts = <<>>
  /\ ohlcs = IF target = "ohlcs" THEN NewArray(capacityHint) ELSE <<>>
  /\ ohlcSystem = IF target = "ohlcSystem"
                  THEN OhlcSystem(IF capacityHint = 0
                                  THEN FileUtils_lineCount(file)
                                  ELSE capacityHint)
                  ELSE OhlcSystem(0)
  /\ EngineIdle

\* what the listener finds when an event is delivered
Closure ==
  [target |-> target, csvFromLine |-> csvFromLine, lineCount |-> lineCount,
   colIndex |-> colIndex, colText |-> colText, colTextSize |-> colTextSize,
   ohlc |-> ohlc, ohlcs |-> ohlcs, ohlcSystem |-> ohlcSystem,
   cursor |-> 0, nextCursor |-> 0, delimIndex |-> -1, lineIndex |-> -1,
   thrown |-> <<>>, starts |-> <<>>]

\* a 'readable' listener that runs the finishing step itself when it has
\* handled the last bytes of the file
ReadableThenFinish ==
  /\ settled = "pending"
  /\ pos < Len(file)
  /\ \E n \in 1..(Len(file) - pos) :
       \E h \in {OnReadable(Closure, <<SubSeq(file, pos + 1, pos + n)>>)} :
         /\ pos' = pos + n
         /\ lineCount' = h.lineCount
         /\ colIndex' = h.colIndex
         /\ colText' = h.colText
         /\ colTextSize' = h.colTextSize
         /\ ohlc' = h.ohlc
         /\ ohlcs' = h.ohlcs
         /\ ohlcSystem' = h.ohlcSystem
         /\ errors' = errors \o h.thrown
         /\ chunkStarts' = h.starts
         /\ finishCount' = IF pos + n = Len(file) THEN finishCount + 1 ELSE finishCount
  /\ UNCHANGED <<file, csvFromLine, target, capacityHint, settled, result,
                 engineVars>>

\* readStream.on('readable', ...) with the next n bytes of the file
Readable ==
  /\ settled = "pending"
  /\ pos < Len(file)
  /\ \E n \in 1..(Len(file) - pos) :
       \E h \in {OnReadable(Closure, <<SubSeq(file, pos + 1, pos + n)>>)} :
         /\ pos' = pos + n
         /\ lineCount' = h.lineCount
         /\ colIndex' = h.colIndex
         /\ colText' = h.colText
         /\ colTextSize' = h.colTextSize
         /\ ohlc' = h.ohlc
         /\ ohlcs' = h.ohlcs
         /\ ohlcSystem' = h.ohlcSystem
         /\ errors' = errors \o h.thrown
         /\ chunkStarts' = h.starts
  /\ UNCHANGED <<file, csvFromLine, target, capacityHint, settled, result,
                 finishCount, engineVars>>

\* readStream.on('end', () => { resolve(finishFunc()) })
End ==
  /\ settled = "pending"
  /\ pos = Len(file)
  /\ settled' = "resolved"
  /\ finishCount' = finishCount + 1
  /\ IF target = "ohlcs"
     THEN /\ result' = OhlcUtils_finishParseOhlcsFromCsv(ohlcs)
          /\ UNCHANGED ohlcSystem
     ELSE /\ ohlcSystem' = OhlcUtils_finishParseOhlcSystemFromCsv(ohlcSystem)
          /\ result' = ohlcSystem'
  /\ UNCHANGED <<file, pos, csvFromLine, target, capacityHint, lineCount,
                 colIndex, colText, colTextSize, ohlc, errors, chunkStarts, ohlcs,
                 engineVars>>

\* readStream.on('error', reject)
StreamError ==
  /\ settled = "pending"
  /\ pos < Len(file)
  /\ settled' = "rejected"
  /\ result' = [k |-> "error"]
  /\ UNCHANGED <<file, pos, csvFromLine, target, capacityHint, lineCount,
                 colIndex, colText, colTextSize, ohlc, errors, finishCount,
                 chunkStarts, ohlcs, ohlcSystem, engineVars>>

Next == Readable \/ End \/ StreamError

Spec == Init /\ [][Next]_vars

\* the event loop of Node emits 'end' once the stream has no bytes left to
\* hand out
SpecLive == Spec /\ WF_vars(End)

(***************************************************************************)
(* The listener when read() hands out a second buffer in the same          *)
(* 'readable' event, which the loop while ((buffer = readStream.read()) != *)
(* null) provides for.  The second buffer is not shorter than the first,   *)
(* so that cursor stays within it.                                         *)
(***************************************************************************)
\* the parser has been called on a file of a header line and a row, to skip
\* the header line
InitBurst ==
  /\ Init
  /\ file = Join(<<Header, RowA>>, TRUE)
  /\ csvFromLine = 1

\* readStream.on('readable', ...) where read() returns the next n bytes and
\* then the m bytes after them
ReadableBurst ==
  /\ settled = "pending"
  /\ pos < Len(file)
  /\ \E n \in 1..(Len(file) - pos) : \E m \in n..(Len(file) - pos - n) :
       \E h \in {OnReadable(Closure, <<SubSeq(file, pos + 1, pos + n),
                                       SubSeq(file, pos + n + 1, pos + n + m)>>)} :
         /\ pos' = pos + n + m
         /\ lineCount' = h.lineCount
         /\ colIndex' = h.colIndex
         /\ colText' = h.colText
         /\ colTextSize' = h.colTextSize
         /\ ohlc' = h.ohlc
         /\ ohlcs' = h.ohlcs
         /\ ohlcSystem' = h.ohlcSystem
         /\ errors' = errors \o h.thrown
         /\ chunkStarts' = h.starts
  /\ UNCHANGED <<file, csvFromLine, target, capacityHint, settled, result,
                 finishCount, engineVars>>

SpecBurst == InitBurst /\ [][Readable \/ ReadableBurst \/ End \/ StreamError]_vars

(***************************************************************************)
(* The benchmark of the engines: index.js hands the parsed dataset and     *)
(* CALC_WINDOW to Ohlc.calculateAll and then to OhlcSystem.calculateAll.   *)
(* The first call is one action per loop iteration and one for its return  *)
(* statement, the second one action per statement.                         *)
(***************************************************************************)
\* the rows a dataset of the benchmark is drawn from
RowChoices ==
  { [date |-> Str(<<49>>), open |-> N(1), high |-> N(2), low |-> N(1),
     close |-> N(1), volume |-> N(1)],
    [date |-> Str(<<50>>), open |-> N(2), high |-> N(4), low |-> N(2),
     close |-> N(3), volume |-> N(2)],
    [date |-> Str(<<52>>), open |-> N(2), high |-> N(2), low |-> N(2),
     close |-> N(2), volume |-> N(3)] }

SeqsUpTo(S, n) == UNION {[1..m -> S] : m \in 0..n}

RECURSIVE PushAll(_, _)
PushAll(array, rows) ==
  IF rows = <<>> THEN array ELSE PushAll(AppendOhlcs(array, Head(rows)), Tail(rows))

RECURSIVE AppendAll(_, _)
AppendAll(sys, rows) ==
  IF rows = <<>> THEN sys ELSE AppendAll(AppendOhlcSystem(sys, Head(rows)), Tail(rows))

\* the Row-Store dataset parsed from a file whose rows are, oldest first, records
RowStoreOf(records, cap) ==
  OhlcUtils_finishParseOhlcsFromCsv(PushAll(NewArray(cap), Reverse(records)))

\* the Column-Store dataset parsed from the same file
ColumnStoreOf(records, cap) ==
  OhlcUtils_finishParseOhlcSystemFromCsv(AppendAll(OhlcSystem(cap), Reverse(records)))

ParserIdle ==
  /\ file = <<>> /\ pos = 0 /\ csvFromLine = 0 /\ target = "ohlcs"
  /\ lineCount = 0 /\ colIndex = 0 /\ colText = <<>> /\ colTextSize = 0
  /\ ohlc = NewOhlc
  /\ errors = <<>> /\ settled = "resolved" /\ result = Undefined
  /\ finishCount = 1
  /\ chunkStarts = <<>>

\* a caller is about to run Ohlc.calculateAll, as index.js does first, or
\* OhlcSystem.calculateAll on its own
InitCalc ==
  /\ ParserIdle
  /\ \E records \in SeqsUpTo(RowChoices, MaxRecords), slack \in 0..1 :
       /\ capacityHint = Len(records) + slack
       /\ ohlcs = RowStoreOf(records, capacityHint)
       /\ ohlcSystem = ColumnStoreOf(records, capacityHint)
  /\ calcWindow \in -1..MaxWindow
  /\ pc \in {"Ohlc.calculateAll", "OhlcSystem.calculateAll"}
  /\ rowTargetIndex = 0
  /\ pass = 0
  /\ rowReturn = [status |-> "pending"]
  /\ colReturn = [status |-> "pending"]
  /\ ChartIdle

\* one iteration of for (...; targetIndex < length; ...) in Ohlc.calculateAll
RowStep ==
  /\ pc = "Ohlc.calculateAll"
  /\ rowTargetIndex < Len(ohlcs)
  /\ ohlcs' = Ohlc_calculateAllBody(ohlcs, Max(0, -(calcWindow - 1) + rowTargetIndex),
                                  rowTargetIndex)
  /\ rowTargetIndex' = rowTargetIndex + 1
  /\ UNCHANGED <<parserVars, ohlcSystem, calcWindow, pc, pass, rowReturn, colReturn,
                 chartVars>>

\* the loop is over: the return statement of Ohlc.calculateAll.  What it
\* throws ends the async function of index.js; otherwise index.js goes on to
\* the Column-Store benchmark
RowReturn ==
  /\ pc = "Ohlc.calculateAll"
  /\ rowTargetIndex >= Len(ohlcs)
  /\ rowReturn' = Ohlc_calculateAllReturn(ohlcs)
  /\ pc' = IF rowReturn'.status = "threw" THEN "done" ELSE "OhlcSystem.calculateAll"
  /\ UNCHANGED <<parserVars, ohlcs, ohlcSystem, calcWindow, rowTargetIndex, pass,
                 colReturn, chartVars>>

\* the next statement of OhlcSystem.calculateAll
ColPass ==
  /\ pc = "OhlcSystem.calculateAll"
  /\ pass < Passes
  /\ ohlcSystem' = OhlcSystem_calculateAllPass(ohlcSystem, calcWindow, pass + 1)
  /\ pass' = pass + 1
  /\ UNCHANGED <<parserVars, ohlcs, calcWindow, pc, rowTargetIndex, rowReturn,
                 colReturn, chartVars>>

\* the return statement of OhlcSystem.calculateAll
ColReturn ==
  /\ pc = "OhlcSystem.calculateAll"
  /\ pass = Passes
  /\ colReturn' = OhlcSystem_calculateAllReturn(ohlcSystem)
  /\ pc' = "done"
  /\ UNCHANGED <<parserVars, ohlcs, ohlcSystem, calcWindow, rowTargetIndex, pass,
                 rowReturn, chartVars>>

NextCalc == RowStep \/ RowReturn \/ ColPass \/ ColReturn

SpecCalc == InitCalc /\ [][NextCalc]_vars

(***************************************************************************)
(* The chart samples: after the benchmark of the engines index.js hands    *)
(* each dataset with CHART_SAMPLES and CHART_TAIL to ChartUtils.  Neither  *)
(* call is reached when Ohlc.calculateAll has thrown.                      *)
(***************************************************************************)
\* the loop of Ohlc.calculateAll from targetIndex on
RECURSIVE Ohlc_calculateAllLoop(_, _, _)
Ohlc_calculateAllLoop(array, window, targetIndex) ==
  IF targetIndex >= Len(array) THEN array
  ELSE Ohlc_calculateAllLoop(
         Ohlc_calculateAllBody(array, Max(0, -(window - 1) + targetIndex), targetIndex),
         window, targetIndex + 1)

\* the statements of OhlcSystem.calculateAll after the p-th
RECURSIVE OhlcSystem_calculateAllPasses(_, _, _)
OhlcSystem_calculateAllPasses(sys, window, p) ==
  IF p >= Passes THEN sys
  ELSE OhlcSystem_calculateAllPasses(OhlcSystem_calculateAllPass(sys, window, p + 1),
                                     window, p + 1)

\* both engines have returned their summaries and index.js is about to
\* write the samples of the Row-Store
InitSample ==
  /\ ParserIdle
  /\ calcWindow = 2
  /\ \E records \in SeqsUpTo(RowChoices, MaxRecords) \ {<<>>}, slack \in 0..1 :
       /\ capacityHint = Len(records) + slack
       /\ ohlcs = Ohlc_calculateAllLoop(RowStoreOf(records, capacityHint), calcWindow, 0)
       /\ ohlcSystem = OhlcSystem_calculateAllPasses(
                         ColumnStoreOf(records, capacityHint), calcWindow, 0)
  /\ rowTargetIndex = Len(ohlcs)
  /\ pass = Passes
  /\ rowReturn = Ohlc_calculateAllReturn(ohlcs)
  /\ colReturn = OhlcSystem_calculateAllReturn(ohlcSystem)
  /\ pc = "ChartUtils.writeOhlcsSamples"
  /\ chartSamples \in 0..MaxSamples
  /\ chartTail \in 0..MaxTail
  /\ rowChart = [status |-> "pending"]
  /\ colChart = [status |-> "pending"]

\* ChartUtils.writeOhlcsSamples(ohlcs, title, samples, tail)
WriteOhlcsSamples ==
  /\ pc = "ChartUtils.writeOhlcsSamples"
  /\ rowChart' = ChartUtils_writeOhlcsSamples(ohlcs, chartSamples, chartTail)
  /\ pc' = "ChartUtils.writeOhlcSystemSamples"
  /\ UNCHANGED <<parserVars, ohlcs, ohlcSystem, calcWindow, rowTargetIndex, pass,
                 rowReturn, colReturn, chartSamples, chartTail, colChart>>

\* ChartUtils.writeOhlcSystemSamples(ohlcSystem, title, samples, tail)
WriteOhlcSystemSamples ==
  /\ pc = "ChartUtils.writeOhlcSystemSamples"
  /\ colChart' = ChartUtils_writeOhlcSystemSamples(ohlcSystem, chartSamples, chartTail)
  /\ pc' = "done"
  /\ UNCHANGED <<parserVars, ohlcs, ohlcSystem, calcWindow, rowTargetIndex, pass,
                 rowReturn, colReturn, chartSamples, chartTail, rowChart>>

NextSample == WriteOhlcsSamples \/ WriteOhlcSystemSamples

SpecSample == InitSample /\ [][NextSample]_vars

(***************************************************************************)
(* The RSI on its own: Ohlc.calculateRsis for each index of a Row-Store and *)
(* OhlcSystem.calculateRsis for a Column-Store of the same records, whose  *)
(* closes may differ by less than the dead-zone literal.                   *)
(***************************************************************************)
\* the rows a dataset is drawn from: closes 1, 2 and 2.000005
CloseChoices ==
  { [date |-> Str(<<49>>), open |-> N(1), high |-> N(3), low |-> N(1),
     close |-> N(1), volume |-> N(1)],
    [date |-> Str(<<50>>), open |-> N(1), high |-> N(3), low |-> N(1),
     close |-> N(2), volume |-> N(1)],
    [date |-> Str(<<51>>), open |-> N(1), high |-> N(3), low |-> N(1),
     close |-> Rat(400001, 200000), volume |-> N(1)] }

\* a caller is about to run calculateRsis over a parsed dataset
InitRsi ==
  /\ ParserIdle
  /\ \E records \in SeqsUpTo(CloseChoices, MaxRecords) \ {<<>>}, slack \in 0..1 :
       /\ capacityHint = Len(records) + slack
       /\ ohlcs = RowStoreOf(records, capacityHint)
       /\ ohlcSystem = ColumnStoreOf(records, capacityHint)
  /\ calcWindow \in 1..MaxWindow
  /\ pc = "Ohlc.calculateRsis"
  /\ rowTargetIndex = 0
  /\ pass = 0
  /\ rowReturn = [status |-> "pending"]
  /\ colReturn = [status |-> "pending"]
  /\ ChartIdle

\* Ohlc.calculateRsis(ohlcs, clampedStartIndex, targetIndex) for the next
\* targetIndex
RowRsi ==
  /\ pc = "Ohlc.calculateRsis"
  /\ rowTargetIndex < Len(ohlcs)
  /\ ohlcs' = Ohlc_calculateRsis(ohlcs, Max(0, -(calcWindow - 1) + rowTargetIndex),
                               rowTargetIndex)
  /\ rowTargetIndex' = rowTargetIndex + 1
  /\ pc' = IF rowTargetIndex' < Len(ohlcs) THEN pc ELSE "OhlcSystem.calculateRsis"
  /\ UNCHANGED <<parserVars, ohlcSystem, calcWindow, pass, rowReturn, colReturn,
                 chartVars>>

\* ohlcSystem.calculateRsis(window)
ColRsi ==
  /\ pc = "OhlcSystem.calculateRsis"
  /\ ohlcSystem' = OhlcSystem_calculateRsis(ohlcSystem, calcWindow)
  /\ pc' = "done"
  /\ UNCHANGED <<parserVars, ohlcs, calcWindow, rowTargetIndex, pass, rowReturn,
                 colReturn, chartVars>>

NextRsi == RowRsi \/ ColRsi

SpecRsi == InitRsi /\ [][NextRsi]_vars

(***************************************************************************)
(* What a file holds, read independently of the parser: its lines, their   *)
(* columns and the record of a row of 8 columns.                           *)
(***************************************************************************)
\* str.split(sep) for a one-byte separator
RECURSIVE SplitAt(_, _)
SplitAt(bytes, sep) ==
  IF IndexOf(bytes, sep, 0) = -1 THEN <<bytes>>
  ELSE <<SubSeq(bytes, 1, IndexOf(bytes, sep, 0))>>
       \o SplitAt(SubSeq(bytes, IndexOf(bytes, sep, 0) + 2, Len(bytes)), sep)

\* the physical lines: what follows the last terminator is a line when it
\* is not empty
PhysicalLines(bytes) ==
  IF SplitAt(bytes, Newline)[Len(SplitAt(bytes, Newline))] = <<>>
  THEN SubSeq(SplitAt(bytes, Newline), 1, Len(SplitAt(bytes, Newline)) - 1)
  ELSE SplitAt(bytes, Newline)

\* how many lines end with a terminator
TerminatedLines(bytes) == Len(SplitAt(bytes, Newline)) - 1

\* the data rows: the lines after the header skip
DataRows(bytes, from) ==
  SubSeq(PhysicalLines(bytes), from + 1, Len(PhysicalLines(bytes)))

Columns(line) == SplitAt(line, Comma)

\* every data row has exactly 8 columns
WellFormed(bytes, from) ==
  \A i \in 1..Len(DataRows(bytes, from)) : Len(Columns(DataRows(bytes, from)[i])) = 8

\* the 1-based numbers of the terminated lines at or after the start offset
\* whose columns are not exactly 8
MalformedLines(bytes, from) ==
  {k \in (from + 1)..TerminatedLines(bytes) :
     Len(Columns(PhysicalLines(bytes)[k])) # 8}

\* the record of a row of 8 columns
RecordOf(line) ==
  [date |-> Str(SplitFirst(Trim(Columns(line)[2]))),
   open |-> ParseFloat(Trim(Columns(line)[4])),
   high |-> ParseFloat(Trim(Columns(line)[5])),
   low |-> ParseFloat(Trim(Columns(line)[6])),
   close |-> ParseFloat(Trim(Columns(line)[7])),
   volume |-> ParseFloat(Trim(Columns(line)[8]))]

\* the records of the data rows, last physical row first
ExpectedRecords(bytes, from) ==
  [i \in 1..Len(DataRows(bytes, from)) |->
     RecordOf(DataRows(bytes, from)[Len(DataRows(bytes, from)) + 1 - i])]

\* the six parsed fields of the entries of a Row-Store array
RowEntries(array) ==
  [i \in 1..Len(array) |->
     [date |-> array[i].date, open |-> array[i].open, high |-> array[i].high,
      low |-> array[i].low, close |-> array[i].close, volume |-> array[i].volume]]

\* the six parsed fields at every index below length of a Column-Store
ColumnEntries(sys) ==
  [i \in 1..sys.length |->
     [date |-> At(sys.dates, i - 1), open |-> At(sys.opens, i - 1),
      high |-> At(sys.highs, i - 1), low |-> At(sys.lows, i - 1),
      close |-> At(sys.closes, i - 1), volume |-> At(sys.volumes, i - 1)]]

\* the entries of the dataset the promise resolved to
ResultEntries ==
  IF target = "ohlcs" THEN RowEntries(result) ELSE ColumnEntries(result)

\* the capacity the target was built with
Capacity ==
  IF target = "ohlcSystem" /\ capacityHint = 0
  THEN FileUtils_lineCount(file) ELSE capacityHint

\* the dataset the parser resolves to when the whole file is one chunk
OneChunk ==
  ReadLoop([target |-> target, csvFromLine |-> csvFromLine, lineCount |-> 0,
            colIndex |-> 0, colText |-> [i \in 1..ColBufferSize |-> 0],
            colTextSize |-> 0, ohlc |-> NewOhlc,
            ohlcs |-> IF target = "ohlcs" THEN NewArray(capacityHint) ELSE <<>>,
            ohlcSystem |-> IF target = "ohlcSystem" THEN OhlcSystem(Capacity)
                           ELSE OhlcSystem(0),
            cursor |-> 0, nextCursor |-> 0, delimIndex |-> -1, lineIndex |-> -1,
            thrown |-> <<>>, starts |-> <<>>],
           IF file = <<>> THEN <<>> ELSE <<file>>)

OneChunkEntries ==
  IF target = "ohlcs"
  THEN RowEntries(OhlcUtils_finishParseOhlcsFromCsv(OneChunk.ohlcs))
  ELSE ColumnEntries(OhlcUtils_finishParseOhlcSystemFromCsv(OneChunk.ohlcSystem))

(***************************************************************************)
(* Properties of the parser, under Spec.                                   *)
(***************************************************************************)
\* C2: chunk-boundary invariance.  For a well-formed file, whatever the
\* chunks its bytes were delivered in, the dataset the parser resolves to is
\* the one it resolves to when the whole file is one chunk.
C2_ChunkInvariance ==
  (settled = "resolved" /\ WellFormed(file, csvFromLine))
    => ResultEntries = OneChunkEntries

\* the chunking made no difference to the dataset
ChunksUnseen == ResultEntries = OneChunkEntries

\* no data row has an empty date
DatesPresent(bytes, from) ==
  \A i \in 1..Len(DataRows(bytes, from)) :
    RecordOf(DataRows(bytes, from)[i]).date # Str(<<>>)

\* C3: parser round trip.  For a well-formed file with L data rows after the
\* header skip, the last of which may lack its terminator, the parsed
\* sequence has exactly L entries and entry k holds data row L-1-k.  Stated
\* where neither the chunking nor an empty date plays a part.
C3_RoundTrip ==
  (/\ settled = "resolved"
   /\ WellFormed(file, csvFromLine)
   /\ DatesPresent(file, csvFromLine)
   /\ ChunksUnseen)
    => ResultEntries = ExpectedRecords(file, csvFromLine)

\* C4: when the terminator of a data row at or after the start offset is
\* reached with a number of columns other than 8, the parser raises an error.
C4_MalformedRowRaises ==
  (settled = "resolved" /\ MalformedLines(file, csvFromLine) # {})
    => errors # <<>>

\* C5: once a malformed row has been detected parsing aborts: the finishing
\* step does not run and the caller receives no dataset.
C5_AbortsOnMalformedRow ==
  errors # <<>> => (finishCount = 0 /\ settled # "resolved")

\* C6: the line reported by the error is the 1-based physical line number
\* of the malformed row.
C6_ReportsOneBasedLine ==
  \A i \in 1..Len(errors) : errors[i].line \in MalformedLines(file, csvFromLine)

\* C7: capacity under-provisioning.  When the capacity the target was built
\* with is smaller than the number of data rows, the target still holds
\* every row, none of its fields lost.  Stated for files whose rows all end
\* with a terminator and have a date.
C7_GrowsPastCapacity ==
  (/\ settled = "resolved"
   /\ WellFormed(file, csvFromLine)
   /\ DatesPresent(file, csvFromLine)
   /\ TerminatedLines(file) = Len(PhysicalLines(file))
   /\ ChunksUnseen
   /\ Capacity < Len(DataRows(file, csvFromLine)))
    => ResultEntries = ExpectedRecords(file, csvFromLine)

\* C8: Column-Store index alignment.  After the finishing step, at every
\* index below length the six parsed values come from one and the same row,
\* rows with an empty date included.  Stated where the capacity is enough.
C8_ColumnsAligned ==
  (/\ target = "ohlcSystem"
   /\ settled = "resolved"
   /\ WellFormed(file, csvFromLine)
   /\ TerminatedLines(file) = Len(PhysicalLines(file))
   /\ ChunksUnseen
   /\ Capacity >= Len(DataRows(file, csvFromLine)))
    => \A i \in 1..Len(ResultEntries) :
         \E k \in 1..Len(DataRows(file, csvFromLine)) :
           ResultEntries[i] = RecordOf(DataRows(file, csvFromLine)[k])

\* how many line terminators the bytes delivered so far hold
TerminatorsConsumed ==
  Cardinality({i \in 1..pos : file[i] = Newline})

\* every line ends with a terminator, the data rows have 8 columns and a
\* date, and the target was built large enough for them
PlainDataRows ==
  /\ WellFormed(file, csvFromLine)
  /\ DatesPresent(file, csvFromLine)
  /\ TerminatedLines(file) = Len(PhysicalLines(file))
  /\ Capacity >= Len(DataRows(file, csvFromLine))

\* lineCount is the number of line terminators consumed so far
LineCountIsTerminators ==
  PlainDataRows => lineCount = TerminatorsConsumed

\* C20: the rows before the start offset are scanned but never
\* materialized.  For a start offset of k (1-based CSV_FROM_LINE) and any
\* content of the first k-1 lines, lineCount is the number of line
\* terminators consumed so far, every line from line k on yields exactly one
\* record and no byte of the first k-1 lines reaches a field of a record.
\* Stated for well-formed terminated data rows, where the chunking, the
\* capacity and an empty date play no part.
C20_SkippedRowsNotMaterialized ==
  PlainDataRows
    => /\ lineCount = TerminatorsConsumed
       /\ (settled = "resolved" /\ ChunksUnseen)
            => ResultEntries = ExpectedRecords(file, csvFromLine)

\* the arrays the Column-Store finishing step reverses
ReversedArrays == {"opens", "highs", "lows", "closes", "volumes"}

\* after is before with its first min(length, before.length) elements in
\* the opposite order and every other element where it was
ReversedPrefix(before, after, length) ==
  /\ Len(after) = Len(before)
  /\ \A i \in 1..Len(before) :
       after[i] = IF i <= Min(length, Len(before))
                  THEN before[Min(length, Len(before)) + 1 - i]
                  ELSE before[i]

\* the finishing step of the Column-Store runs in this step
ColumnStoreFinishes ==
  target = "ohlcSystem" /\ finishCount' = finishCount + 1

\* C22: the finishing reversal only touches the populated prefix.
\* AlgUtils.reverseMinLength(array, length) reverses the elements
\* 0..min(length, array.length)-1 in place and leaves every element at an
\* index >= length unchanged, and the finishing step of the Column-Store
\* applies it with the same length to opens, highs, lows, closes and volumes.
C22_ReversalTouchesPrefixOnly ==
  [][ColumnStoreFinishes
       => /\ ohlcSystem'.length = ohlcSystem.length
          /\ \A f \in ReversedArrays :
               ReversedPrefix(ohlcSystem[f], ohlcSystem'[f], ohlcSystem.length)]_vars

\* the finishing step has run on a Column-Store of two rows and a capacity
\* of three: the two opens are in file order reversed and the third element
\* is the zero the constructor left
C22_Witness ==
  /\ target = "ohlcSystem" /\ settled = "resolved" /\ finishCount = 1
  /\ errors = <<>>
  /\ ohlcSystem.length = 2 /\ Len(ohlcSystem.opens) = 3
  /\ ohlcSystem.opens[1] # ohlcSystem.opens[2]
  /\ ohlcSystem.opens = <<ExpectedRecords(file, csvFromLine)[1].open,
                          ExpectedRecords(file, csvFromLine)[2].open, N(0)>>

\* the dataset the finishing step hands over
FinishedDataset ==
  IF target = "ohlcs" THEN OhlcUtils_finishParseOhlcsFromCsv(ohlcs) ELSE ohlcSystem

\* the finishing step has run at most once and only at the end of the data,
\* and the caller has the dataset exactly when it has run
FinishedInOrder ==
  /\ finishCount \in {0, 1}
  /\ finishCount = 1 => pos = Len(file)
  /\ settled = "resolved" <=> finishCount = 1
  /\ settled = "resolved" => result = FinishedDataset

\* the finishing step runs when the source is at its end and resolves the
\* promise; after it no record is appended and the dataset stays as it is
FinishIsLast ==
  /\ finishCount' # finishCount
       => (pos = Len(file) /\ pos' = pos /\ settled = "pending" /\ settled' = "resolved")
  /\ finishCount >= 1
       => (ohlcs' = ohlcs /\ ohlcSystem' = ohlcSystem /\ result' = result
           /\ finishCount' = finishCount)

\* C23: the order of the ingestion events in the custom parser.  The
\* finishing step runs exactly once, only after the byte source has
\* signalled end-of-data and the listener has ended for every delivered
\* chunk; the dataset is handed to the caller only after that step, and no
\* record is appended after it.
C23_FinishAfterEndOfData ==
  /\ []FinishedInOrder
  /\ [][FinishIsLast]_vars
  /\ (pos = Len(file) /\ settled = "pending") ~> (finishCount = 1)

\* every byte of a file of two rows has been handled and the finishing step
\* has handed the two records over
C23_Witness ==
  /\ finishCount = 1 /\ settled = "resolved" /\ pos = Len(file)
  /\ errors = <<>>
  /\ Len(ResultEntries) = 2

\* the bytes delivered so far
Delivered == SubSeq(file, 1, pos)

\* where the last comma or line terminator of the delivered bytes is, 0 when
\* there is none
RECURSIVE LastSeparator(_)
LastSeparator(i) ==
  IF i = 0 \/ file[i] = Comma \/ file[i] = Newline THEN i ELSE LastSeparator(i - 1)

\* the bytes of the field that the delivered bytes leave unterminated
UnterminatedField == SubSeq(file, LastSeparator(pos) + 1, pos)

\* C27: the carry-over buffer never loses field bytes.  Between two chunks
\* colTextSize is the number of bytes of the current unterminated field seen
\* in all earlier chunks, it does not exceed the scratch buffer size
\* (CSV_COL_BUFFER_SIZE), and the carried text is exactly those bytes, so
\* that the text handed to the field parser is the field and nothing else.
\* Stated for the data rows of a well-formed file while no error was raised.
C27_CarryHoldsField ==
  (/\ settled = "pending" /\ errors = <<>>
   /\ WellFormed(file, csvFromLine)
   /\ lineCount >= csvFromLine
   /\ lineCount = TerminatorsConsumed)
    => /\ colTextSize = Len(UnterminatedField)
       /\ colTextSize <= ColBufferSize
       /\ SubSeq(colText, 1, colTextSize) = UnterminatedField

DerivedFields ==
  << <<"hl2", "hl2s">>, <<"hl2Average", "hl2Averages">>,
     <<"hl2StdevUpper", "hl2StdevUppers">>, <<"hl2StdevLower", "hl2StdevLowers">>,
     <<"hlc3", "hlc3s">>, <<"hlc3Average", "hlc3Averages">>,
     <<"hlc3StdevUpper", "hlc3StdevUppers">>, <<"hlc3StdevLower", "hlc3StdevLowers">>,
     <<"ohlc4", "ohlc4s">>, <<"ohlc4Average", "ohlc4Averages">>,
     <<"ohlc4StdevUpper", "ohlc4StdevUppers">>, <<"ohlc4StdevLower", "ohlc4StdevLowers">>,
     <<"rsi", "rsis">>, <<"stochastic", "stochastics">>, <<"mfi", "mfis">> >>

\* both engines have returned
BothReturned == rowReturn.status = "returned" /\ colReturn.status = "returned"

\* C1: for the same records and the same window W > 0 the two engines
\* produce identical values for each of the 15 derived fields at every
\* index, the early indices i < W-1 included.
C1_EnginesAgree ==
  (BothReturned /\ calcWindow > 0)
    => \A i \in 1..Len(ohlcs) : \A p \in 1..Len(DerivedFields) :
         ohlcs[i][DerivedFields[p][1]] = ohlcSystem[DerivedFields[p][2]][i]

\* a derived field of some record has been written: it is not the 0.0 the
\* constructors left
DerivedWritten ==
  \E p \in 1..Len(DerivedFields) :
    \/ \E i \in 1..Len(ohlcs) : ohlcs[i][DerivedFields[p][1]] # N(0)
    \/ \E i \in 1..Len(ohlcSystem[DerivedFields[p][2]]) :
         ohlcSystem[DerivedFields[p][2]][i] # N(0)

\* C9: both engines reject a window W <= 0 before any computation loop
\* runs: calculateAll writes no derived field and returns no summary.
C9_RejectsNonPositiveWindow ==
  calcWindow <= 0
    => /\ ~DerivedWritten
       /\ rowReturn.status # "returned" /\ colReturn.status # "returned"

\* C10: both engines reject an empty dataset before computation begins;
\* neither returns a summary for it.
C10_RejectsEmptyDataset ==
  (Len(ohlcs) = 0 /\ ohlcSystem.length = 0)
    => rowReturn.status # "returned" /\ colReturn.status # "returned"

\* the engines agree on every derived field but the RSI
AgreeButRsi ==
  BothReturned
    => \A i \in 1..Len(ohlcs) : \A p \in 1..Len(DerivedFields) :
         DerivedFields[p][1] # "rsi"
           => ohlcs[i][DerivedFields[p][1]] = ohlcSystem[DerivedFields[p][2]][i]

\* v is the element at index k of the ascending sort of values
IsOrderStatistic(values, k, v) ==
  /\ \E i \in 1..Len(values) : values[i] = v
  /\ Cardinality({i \in 1..Len(values) : Lt(values[i], v)}) <= k
  /\ Cardinality({i \in 1..Len(values) : ~Lt(v, values[i])}) >= k + 1

\* the array of an OhlcSystem that holds a summary field
SummaryArrays ==
  [close |-> "closes", volume |-> "volumes", hlc3 |-> "hlc3s", rsi |-> "rsis",
   stochastic |-> "stochastics", mfi |-> "mfis"]

\* each engine's summary holds, for each of the six fields, the element at
\* index floor(n/2) of the ascending sort of its own n populated values
MedianOfEachEngine ==
  (BothReturned /\ calcWindow > 0)
    => \A p \in 1..Len(MedianFields) :
         /\ IsOrderStatistic(Field(ohlcs, MedianFields[p]), Len(ohlcs) \div 2,
                             rowReturn.medians[MedianFields[p]])
         /\ IsOrderStatistic(SubSeq(ohlcSystem[SummaryArrays[MedianFields[p]]],
                                    1, ohlcSystem.length),
                             ohlcSystem.length \div 2,
                             colReturn.medians[MedianFields[p]])

\* C11: the median of a field over n populated values is the element at
\* index floor(n/2) of their ascending sort, and both engines return this
\* same value for each of the six summary fields.
C11_MedianIsUpperMiddle ==
  /\ MedianOfEachEngine
  /\ (BothReturned /\ calcWindow > 0)
       => \A p \in 1..Len(MedianFields) :
            colReturn.medians[MedianFields[p]] = rowReturn.medians[MedianFields[p]]

\* the typical-price variants: the field and its band fields in an Ohlc, and
\* the arrays that hold them in an OhlcSystem
BandFields ==
  << [value |-> "hl2", average |-> "hl2Average", upper |-> "hl2StdevUpper",
      lower |-> "hl2StdevLower", values |-> "hl2s", averages |-> "hl2Averages",
      uppers |-> "hl2StdevUppers", lowers |-> "hl2StdevLowers"],
     [value |-> "hlc3", average |-> "hlc3Average", upper |-> "hlc3StdevUpper",
      lower |-> "hlc3StdevLower", values |-> "hlc3s", averages |-> "hlc3Averages",
      uppers |-> "hlc3StdevUppers", lowers |-> "hlc3StdevLowers"],
     [value |-> "ohlc4", average |-> "ohlc4Average", upper |-> "ohlc4StdevUpper",
      lower |-> "ohlc4StdevLower", values |-> "ohlc4s", averages |-> "ohlc4Averages",
      uppers |-> "ohlc4StdevUppers", lowers |-> "ohlc4StdevLowers"] >>

\* the first index of the trailing window of W values that ends at index i
WindowStart(i) == Max(0, i - calcWindow + 1)

\* values[lo] + ... + values[hi], indices 0-based
RECURSIVE SumOver(_, _, _)
SumOver(values, lo, hi) ==
  IF lo > hi THEN N(0) ELSE Add(At(values, lo), SumOver(values, lo + 1, hi))

\* the arithmetic mean of values[lo..hi]
MeanOver(values, lo, hi) == Div(SumOver(values, lo, hi), N(hi - lo + 1))

\* C12: for every window W > 0 and every index i, the band average of each
\* typical-price variant (hl2, hlc3, ohlc4) equals the arithmetic mean of
\* the trailing min(W, i+1) values of that field ending at i, that is over
\* the indices max(0, i-W+1) .. i, in both engines.
C12_BandAverageIsWindowMean ==
  (BothReturned /\ calcWindow > 0)
    => \A b \in 1..Len(BandFields) : \A i \in 0..(Len(ohlcs) - 1) :
         /\ At(ohlcs, i)[BandFields[b].average]
              = MeanOver(Field(ohlcs, BandFields[b].value), WindowStart(i), i)
         /\ At(ohlcSystem[BandFields[b].averages], i)
              = MeanOver(ohlcSystem[BandFields[b].values], WindowStart(i), i)

\* both engines have returned for a dataset longer than its window W > 1,
\* whose first index has a clamped window and whose last a full one, over
\* values that are not all the same
C12_Witness ==
  /\ BothReturned
  /\ calcWindow = 2 /\ Len(ohlcs) = 4
  /\ At(ohlcs, 2).hl2 # At(ohlcs, 3).hl2
  /\ At(ohlcs, 3).hl2Average = Div(Add(At(ohlcs, 2).hl2, At(ohlcs, 3).hl2), N(2))
  /\ At(ohlcs, 0).hl2Average = At(ohlcs, 0).hl2

\* the sum of the squared deviations of values[lo..hi] from mean
RECURSIVE SquaredDeviations(_, _, _, _)
SquaredDeviations(values, lo, hi, mean) ==
  IF lo > hi THEN N(0)
  ELSE Add(Mul(Sub(At(values, lo), mean), Sub(At(values, lo), mean)),
           SquaredDeviations(values, lo + 1, hi, mean))

\* the sample variance of values[lo..hi]: 0 for a single value
VarianceOver(values, lo, hi) ==
  IF hi - lo + 1 > 1
  THEN Div(SquaredDeviations(values, lo, hi, MeanOver(values, lo, hi)), N(hi - lo))
  ELSE N(0)

\* average, upper and lower are the bands of values over the window that
\* ends at index i
IsBandOf(values, i, average, upper, lower) ==
  /\ upper = Add(average, Mul(N(2), MathSqrt(VarianceOver(values, WindowStart(i), i))))
  /\ lower = Sub(average, Mul(N(2), MathSqrt(VarianceOver(values, WindowStart(i), i))))
  /\ WindowStart(i) = i => (upper = At(values, i) /\ lower = At(values, i)
                            /\ average = At(values, i))

\* C13: the band variance is the sum of the squared deviations divided by
\* count-1 when the window holds more than one value and 0 otherwise, so
\* whenever the clamped window holds a single value (index 0, or W = 1 at
\* any index) upper band = lower band = average = that value.
C13_BandVariance ==
  (BothReturned /\ calcWindow > 0)
    => \A b \in 1..Len(BandFields) : \A i \in 0..(Len(ohlcs) - 1) :
         /\ IsBandOf(Field(ohlcs, BandFields[b].value), i,
                     At(ohlcs, i)[BandFields[b].average],
                     At(ohlcs, i)[BandFields[b].upper],
                     At(ohlcs, i)[BandFields[b].lower])
         /\ IsBandOf(ohlcSystem[BandFields[b].values], i,
                     At(ohlcSystem[BandFields[b].averages], i),
                     At(ohlcSystem[BandFields[b].uppers], i),
                     At(ohlcSystem[BandFields[b].lowers], i))

\* both engines have returned with W = 2: the window of index 0 holds a
\* single value and its bands collapse to it, the window of index 1 holds
\* two different values and its bands are apart
C13_Witness ==
  /\ BothReturned
  /\ calcWindow = 2 /\ Len(ohlcs) >= 2
  /\ At(ohlcs, 0).hlc3StdevUpper = At(ohlcs, 0).hlc3
  /\ At(ohlcSystem.hlc3StdevLowers, 0) = At(ohlcSystem.hlc3s, 0)
  /\ Lt(At(ohlcs, 1).hlc3StdevLower, At(ohlcs, 1).hlc3StdevUpper)
  /\ Lt(At(ohlcSystem.hlc3StdevLowers, 1), At(ohlcSystem.hlc3StdevUppers, 1))

\* the largest of values[lo..hi]
RECURSIVE MaxOver(_, _, _)
MaxOver(values, lo, hi) ==
  IF lo >= hi THEN At(values, hi)
  ELSE MathMax(At(values, lo), MaxOver(values, lo + 1, hi))

\* the smallest of values[lo..hi]
RECURSIVE MinOver(_, _, _)
MinOver(values, lo, hi) ==
  IF lo >= hi THEN At(values, hi)
  ELSE MathMin(At(values, lo), MinOver(values, lo + 1, hi))

\* %K of a close within windowLow .. windowHigh
PercentK(close, windowHigh, windowLow) ==
  IF windowHigh = windowLow THEN N(0)
  ELSE Div(Mul(N(100), Sub(close, windowLow)), Sub(windowHigh, windowLow))

\* C14: in both engines the stochastic %K at index i is
\* 100*(close[i] - windowLow)/(windowHigh - windowLow), where windowHigh and
\* windowLow are the maximum high and the minimum low over the indices
\* max(0, i-W+1) .. i, and it is 0 when windowHigh equals windowLow.
C14_StochasticOverWindow ==
  (BothReturned /\ calcWindow > 0)
    => \A i \in 0..(Len(ohlcs) - 1) :
         /\ At(ohlcs, i).stochastic
              = PercentK(At(ohlcs, i).close,
                         MaxOver(Field(ohlcs, "high"), WindowStart(i), i),
                         MinOver(Field(ohlcs, "low"), WindowStart(i), i))
         /\ At(ohlcSystem.stochastics, i)
              = PercentK(At(ohlcSystem.closes, i),
                         MaxOver(ohlcSystem.highs, WindowStart(i), i),
                         MinOver(ohlcSystem.lows, WindowStart(i), i))

\* both engines have returned with W = 2 for a dataset whose first record
\* has high = low, so that %K is 0 there, and whose second window spans
\* two records, with a %K that is not 0
C14_Witness ==
  /\ BothReturned
  /\ calcWindow = 2 /\ Len(ohlcs) >= 3
  /\ At(ohlcs, 0).high = At(ohlcs, 0).low
  /\ At(ohlcs, 0).stochastic = N(0) /\ At(ohlcSystem.stochastics, 0) = N(0)
  /\ At(ohlcs, 1).high # At(ohlcs, 0).high
  /\ At(ohlcs, 1).stochastic # N(0) /\ At(ohlcSystem.stochastics, 1) # N(0)

\* the money flow of each record: typical price times volume
MoneyFlows(hlc3s, volumes) ==
  [j \in 1..Min(Len(hlc3s), Len(volumes)) |-> Mul(hlc3s[j], volumes[j])]

\* no value of the window that ends at index i is less than the one before it
NoDecrease(values, i) ==
  \A j \in (WindowStart(i) + 1)..i : ~Lt(At(values, j), At(values, j - 1))

\* C15: in both engines a window with no down-movement (no close of the
\* window is less than the close before it) yields RSI = 0 at that index,
\* and a window with no negative money flow (no typical-price*volume flow
\* of the window is less than the flow before it) yields MFI = 0.
C15_ZeroWithoutDownMove ==
  (BothReturned /\ calcWindow > 0)
    => \A i \in 0..(Len(ohlcs) - 1) :
         /\ NoDecrease(Field(ohlcs, "close"), i)
              => (At(ohlcs, i).rsi = N(0) /\ At(ohlcSystem.rsis, i) = N(0))
         /\ NoDecrease(MoneyFlows(Field(ohlcs, "hlc3"), Field(ohlcs, "volume")), i)
              => At(ohlcs, i).mfi = N(0)
         /\ NoDecrease(MoneyFlows(ohlcSystem.hlc3s, ohlcSystem.volumes), i)
              => At(ohlcSystem.mfis, i) = N(0)

\* the RSI half of C15 alone
RsiZeroWithoutDownMove ==
  (BothReturned /\ calcWindow > 0)
    => \A i \in 0..(Len(ohlcs) - 1) :
         NoDecrease(Field(ohlcs, "close"), i)
           => (At(ohlcs, i).rsi = N(0) /\ At(ohlcSystem.rsis, i) = N(0))

\* the class of a delta with a dead-zone of 1e-5 on each side of zero
DeadZoneClass(delta) ==
  IF Gt(delta, Epsilon) THEN "up"
  ELSE IF Lt(delta, Neg(Epsilon)) THEN "down" ELSE "none"

\* the moving averages of the RSI over closes[from-1..targetIndex] when
\* each delta is classified by DeadZoneClass
RECURSIVE DeadZoneRsiLoop(_, _, _, _, _)
DeadZoneRsiLoop(closes, periods, i, targetIndex, acc) ==
  IF i > targetIndex THEN acc
  ELSE Then(Sub(At(closes, i), At(closes, i - 1)), LAMBDA delta :
       DeadZoneRsiLoop(closes, periods, i + 1, targetIndex,
         [upEma |-> Div(Add(Mul(acc.upEma, N(periods - 1)),
                            IF DeadZoneClass(delta) = "up" THEN delta ELSE N(0)),
                        N(periods)),
          downEma |-> Div(Add(Mul(acc.downEma, N(periods - 1)),
                              IF DeadZoneClass(delta) = "down" THEN Neg(delta) ELSE N(0)),
                          N(periods))]))

\* the accumulators of the MFI over flows[from-1..targetIndex] when each
\* delta is classified by DeadZoneClass
RECURSIVE DeadZoneMfiLoop(_, _, _, _)
DeadZoneMfiLoop(flows, i, targetIndex, acc) ==
  IF i > targetIndex THEN acc
  ELSE Then(DeadZoneClass(Sub(At(flows, i), At(flows, i - 1))), LAMBDA class :
       DeadZoneMfiLoop(flows, i + 1, targetIndex,
         [positive |-> IF class = "up" THEN Add(acc.positive, At(flows, i))
                       ELSE acc.positive,
          negative |-> IF class = "down" THEN Add(acc.negative, At(flows, i))
                       ELSE acc.negative]))

\* the RSI of the window that ends at index i, with the given periods
DeadZoneRsi(closes, periods, i) ==
  RsiOf(DeadZoneRsiLoop(closes, periods, WindowStart(i) + 1, i,
                        [upEma |-> N(0), downEma |-> N(0)]))

\* the MFI of the window that ends at index i
DeadZoneMfi(flows, i) ==
  MfiOf(DeadZoneMfiLoop(flows, WindowStart(i) + 1, i,
                        [positive |-> N(0), negative |-> N(0)]))

\* the RSI half of C16: each engine's RSI, with the periods that engine
\* uses, is the one the dead-zone classification gives
RsiUsesDeadZone ==
  (BothReturned /\ calcWindow > 0)
    => \A i \in 0..(Len(ohlcs) - 1) :
         /\ At(ohlcs, i).rsi
              = DeadZoneRsi(Field(ohlcs, "close"), i - WindowStart(i) + 1, i)
         /\ At(ohlcSystem.rsis, i) = DeadZoneRsi(ohlcSystem.closes, calcWindow, i)

\* C16: deltas are classified with a dead-zone of 1e-5 on each side of
\* zero: a delta above 1e-5 counts as up/positive, a delta below -1e-5 as
\* down/negative, and a delta of absolute value at most 1e-5 (0 included)
\* contributes to neither accumulator, in RSI and MFI and in both engines.
C16_DeadZoneClassification ==
  /\ RsiUsesDeadZone
  /\ (BothReturned /\ calcWindow > 0)
       => \A i \in 0..(Len(ohlcs) - 1) :
            /\ At(ohlcs, i).mfi
                 = DeadZoneMfi(MoneyFlows(Field(ohlcs, "hlc3"), Field(ohlcs, "volume")), i)
            /\ At(ohlcSystem.mfis, i)
                 = DeadZoneMfi(MoneyFlows(ohlcSystem.hlc3s, ohlcSystem.volumes), i)

\* the RSI of the window that ends at index i when the smoothing divisor
\* is the length of that window, min(W, i+1)
RsiOverWindow(closes, i) ==
  Rsi(closes, i - WindowStart(i) + 1, WindowStart(i) + 1, i)

\* the Row-Store half of C18
RowRsiUsesWindowLength ==
  (BothReturned /\ calcWindow > 0)
    => \A i \in 0..(Len(ohlcs) - 1) :
         At(ohlcs, i).rsi = RsiOverWindow(Field(ohlcs, "close"), i)

\* C18: in both engines the RSI at index i uses periods = the length of
\* the clamped trailing window at that index, min(W, i+1), as the smoothing
\* divisor (weight (periods-1)/periods per step).
C18_RsiPeriodsIsWindowLength ==
  /\ RowRsiUsesWindowLength
  /\ (BothReturned /\ calcWindow > 0)
       => \A i \in 0..(Len(ohlcs) - 1) :
            At(ohlcSystem.rsis, i) = RsiOverWindow(ohlcSystem.closes, i)

\* what one step adds to an accumulator: its current flow when the delta is
\* above 1e-5 ("flowAbove") or below 1e-5 ("flowBelow"), its delta when the
\* delta is positive ("deltaPositive") or negative ("deltaNegative")
StepTerm(kind, flow, delta) ==
  CASE kind = "flowAbove" -> IF Gt(delta, Epsilon) THEN flow ELSE N(0)
    [] kind = "flowBelow" -> IF Lt(delta, Epsilon) THEN flow ELSE N(0)
    [] kind = "deltaPositive" -> IF Gt(delta, N(0)) THEN delta ELSE N(0)
    [] kind = "deltaNegative" -> IF Lt(delta, N(0)) THEN delta ELSE N(0)

\* the sum of the terms of the steps lo..hi, the delta of step j being
\* flows[j] - flows[j-1]
RECURSIVE SumOfSteps(_, _, _, _)
SumOfSteps(flows, lo, hi, kind) ==
  IF lo > hi THEN N(0)
  ELSE Add(StepTerm(kind, At(flows, lo), Sub(At(flows, lo), At(flows, lo - 1))),
           SumOfSteps(flows, lo + 1, hi, kind))

\* 100 - 100/(1 + positive/negative) when negative is not zero, else 0
MoneyFlowIndex(positive, negative) ==
  IF negative = N(0) THEN N(0)
  ELSE Sub(N(100), Div(N(100), Add(N(1), Div(positive, negative))))

\* the MFI of the window that ends at index i when the accumulators sum
\* the current flows: positive those of the steps whose delta is above
\* 1e-5, negative those of the steps whose delta is below 1e-5
MfiOfFlows(flows, i) ==
  MoneyFlowIndex(SumOfSteps(flows, WindowStart(i) + 1, i, "flowAbove"),
                 SumOfSteps(flows, WindowStart(i) + 1, i, "flowBelow"))

\* the MFI of the window that ends at index i when the accumulators sum
\* the deltas: positive the positive ones, negative the negative ones
MfiOfDeltas(flows, i) ==
  MoneyFlowIndex(SumOfSteps(flows, WindowStart(i) + 1, i, "deltaPositive"),
                 SumOfSteps(flows, WindowStart(i) + 1, i, "deltaNegative"))

\* C19 as stated: the money-flow index accumulates, over the window, the
\* positive and the negative typical-price*volume deltas: positive is the
\* sum of the positive deltas, negative the sum of the negative deltas, and
\* mfi = 100 - 100/(1 + positive/negative) when negative is non-zero, else 0.
C19_MfiAccumulatesDeltas ==
  (BothReturned /\ calcWindow > 0)
    => \A i \in 0..(Len(ohlcs) - 1) :
         /\ At(ohlcs, i).mfi
              = MfiOfDeltas(MoneyFlows(Field(ohlcs, "hlc3"), Field(ohlcs, "volume")), i)
         /\ At(ohlcSystem.mfis, i)
              = MfiOfDeltas(MoneyFlows(ohlcSystem.hlc3s, ohlcSystem.volumes), i)

\* C19, amended: the money-flow index accumulates, over the window, the
\* current typical-price*volume flows: positive is the sum of the current
\* flows of the steps whose delta is above 1e-5, negative the sum of the
\* current flows of the steps whose delta is below 1e-5, and
\* mfi = 100 - 100/(1 + positive/negative) when negative is non-zero, else 0.
C19_MfiAccumulatesFlows ==
  (BothReturned /\ calcWindow > 0)
    => \A i \in 0..(Len(ohlcs) - 1) :
         /\ At(ohlcs, i).mfi
              = MfiOfFlows(MoneyFlows(Field(ohlcs, "hlc3"), Field(ohlcs, "volume")), i)
         /\ At(ohlcSystem.mfis, i)
              = MfiOfFlows(MoneyFlows(ohlcSystem.hlc3s, ohlcSystem.volumes), i)

\* both engines have returned with W = 3 for a dataset whose flows rise and
\* then fall, so that the window of index 2 has a step of each sign and an
\* MFI that is neither 0 nor what the sums of the deltas give
C19_Witness ==
  /\ BothReturned
  /\ calcWindow = 3 /\ Len(ohlcs) >= 3
  /\ Lt(At(MoneyFlows(ohlcSystem.hlc3s, ohlcSystem.volumes), 0),
        At(MoneyFlows(ohlcSystem.hlc3s, ohlcSystem.volumes), 1))
  /\ Lt(At(MoneyFlows(ohlcSystem.hlc3s, ohlcSystem.volumes), 2),
        At(MoneyFlows(ohlcSystem.hlc3s, ohlcSystem.volumes), 1))
  /\ At(ohlcs, 2).mfi # N(0) /\ At(ohlcSystem.mfis, 2) # N(0)
  /\ At(ohlcSystem.mfis, 2)
       # MfiOfDeltas(MoneyFlows(ohlcSystem.hlc3s, ohlcSystem.volumes), 2)

\* the 15 derived fields of a record of the Row-Store
DerivedOf(o) == [p \in 1..Len(DerivedFields) |-> o[DerivedFields[p][1]]]

\* the loop of Ohlc.calculateAll is at index rowTargetIndex and no record
\* from there on has a derived field written
LaterRecordsUntouched ==
  pc = "Ohlc.calculateAll"
    => \A j \in (rowTargetIndex + 1)..Len(ohlcs) :
         DerivedOf(ohlcs[j]) = [p \in 1..Len(DerivedFields) |-> N(0)]

\* a step writes the record at rowTargetIndex and no other, and moves to the
\* next index; nothing else writes a record
OneRecordPerStep ==
  /\ Len(ohlcs') = Len(ohlcs)
  /\ \A j \in 1..Len(ohlcs) : j # rowTargetIndex + 1 => ohlcs'[j] = ohlcs[j]
  /\ rowTargetIndex' \in {rowTargetIndex, rowTargetIndex + 1}
  /\ ohlcs' # ohlcs => rowTargetIndex' = rowTargetIndex + 1

\* C21: the Row-Store iteration is record-major.  calculateAll writes the
\* derived fields of record i before it writes any derived field of record
\* i+1, and once it has moved to index i+1 it never writes a derived field
\* of a record with index <= i again.
C21_RecordMajor ==
  []LaterRecordsUntouched /\ [][OneRecordPerStep]_vars

\* the loop has written records 0 and 1 and is about to write record 2
C21_Witness ==
  /\ pc = "Ohlc.calculateAll" /\ calcWindow > 0
  /\ rowTargetIndex = 2 /\ Len(ohlcs) >= 3
  /\ ohlcs[1].hl2 # N(0) /\ ohlcs[2].ohlc4StdevUpper # N(0)
  /\ ohlcs[3].hl2 = N(0)

\* the raw fields of the Column-Store, the dates and the length
RawColumns(sys) ==
  <<sys.length, sys.dates, sys.opens, sys.highs, sys.lows, sys.closes, sys.volumes>>

\* the Row-Store after a second run is the one the first run left, and the
\* summary is the one the first run returned
SameRowStore(again) ==
  again = ohlcs /\ Ohlc_calculateAllReturn(again) = rowReturn

\* the same of the Column-Store
SameColumnStore(again) ==
  again = ohlcSystem /\ OhlcSystem_calculateAllReturn(again) = colReturn

\* a second run of an engine that has returned, on the dataset it left and
\* with the same window, leaves the dataset as it is and returns the same
\* summary
SecondRunChangesNothing ==
  pc = "done"
    => /\ rowReturn.status = "returned"
            => SameRowStore(Ohlc_calculateAllLoop(ohlcs, calcWindow, 0))
       /\ colReturn.status = "returned"
            => SameColumnStore(OhlcSystem_calculateAllPasses(ohlcSystem, calcWindow, 0))

\* no step changes a raw field, a date or the order of the records
RawFieldsKept ==
  /\ RowEntries(ohlcs') = RowEntries(ohlcs)
  /\ RawColumns(ohlcSystem') = RawColumns(ohlcSystem)

\* C24: calculateAll is idempotent and reads only raw fields as inputs.
\* Running it a second time on the same dataset with the same window leaves
\* the 15 derived fields and the six medians unchanged, and no run changes
\* open, high, low, close, volume, date or the order of the records.
C24_CalculateAllIdempotent ==
  []SecondRunChangesNothing /\ [][RawFieldsKept]_vars

\* both engines have returned for three or more records with a window of two
\* or more, the RSI of the third record being neither 0 nor 100
C24_Witness ==
  /\ BothReturned /\ pc = "done"
  /\ calcWindow >= 2 /\ Len(ohlcs) >= 3
  /\ ohlcs[3].rsi # N(0) /\ ohlcs[3].rsi # N(100)
  /\ ohlcSystem.rsis[3] # N(0) /\ ohlcSystem.hl2s[3] # N(0)

\* 0 <= x <= 100
InPercentRange(x) == IsNum(x) /\ ~Lt(x, N(0)) /\ ~Gt(x, N(100))

\* C25: for every input with finite closes and every window W > 0 the RSI
\* written at every index lies in the range [0, 100], in both engines.
C25_RsiInRange ==
  /\ \A i \in 1..rowTargetIndex : InPercentRange(ohlcs[i].rsi)
  /\ pc = "done" => \A i \in 1..ohlcSystem.length : InPercentRange(ohlcSystem.rsis[i])

\* the b-th typical-price variant of a record: (high + low) / 2,
\* (high + low + close) / 3, (open + high + low + close) / 4
MidpointOf(b, r) ==
  CASE b = 1 -> Div(Add(r.high, r.low), N(2))
    [] b = 2 -> Div(Add(Add(r.high, r.low), r.close), N(3))
    [] b = 3 -> Div(Add(Add(Add(r.open, r.high), r.low), r.close), N(4))

\* values[lo..hi] hold the b-th variant of the records: they have been
\* written and none is the 0.0 of a field that was not
ComputedOver(b, values, records, lo, hi) ==
  \A j \in lo..hi :
    At(values, j) = MidpointOf(b, records[j + 1]) /\ At(values, j) # N(0)

\* the Row-Store: what the bands and the MFI of every record written so far
\* read had been computed, and they are made of those values
RowReadsComputed ==
  \A i \in 0..(rowTargetIndex - 1) :
    /\ \A b \in 1..Len(BandFields) :
         /\ ComputedOver(b, Field(ohlcs, BandFields[b].value), RowEntries(ohlcs),
                         WindowStart(i), i)
         /\ At(ohlcs, i)[BandFields[b].average]
              = MeanOver(Field(ohlcs, BandFields[b].value), WindowStart(i), i)
    /\ At(ohlcs, i).mfi
         = MfiOfFlows(MoneyFlows(Field(ohlcs, "hlc3"), Field(ohlcs, "volume")), i)

\* the Column-Store: when the pass of the b-th bands, or the pass of the MFI,
\* is the next one, the pass of the values it reads is done; when it is done
\* its results are made of those values
ColumnReadsComputed ==
  /\ \A b \in 1..Len(BandFields) :
       /\ pass >= 2 * b - 1
            => ComputedOver(b, ohlcSystem[BandFields[b].values],
                            ColumnEntries(ohlcSystem), 0, ohlcSystem.length - 1)
       /\ pass >= 2 * b
            => \A i \in 0..(ohlcSystem.length - 1) :
                 At(ohlcSystem[BandFields[b].averages], i)
                   = MeanOver(ohlcSystem[BandFields[b].values], WindowStart(i), i)
  /\ pass >= Passes
       => \A i \in 0..(ohlcSystem.length - 1) :
            At(ohlcSystem.mfis, i)
              = MfiOfFlows(MoneyFlows(ohlcSystem.hlc3s, ohlcSystem.volumes), i)

\* C26: no windowed statistic reads a derived input before it has been
\* computed.  In both engines every hl2, hlc3 and ohlc4 value read by a band
\* computation or by the MFI at index i (the indices max(0, i-W+1) .. i, and
\* i-1 for the MFI) was already written by the current pass and is not the
\* default zero of an uncomputed field.
C26_ReadsComputedInputs ==
  calcWindow > 0 => (RowReadsComputed /\ ColumnReadsComputed)

\* the Row-Store has written three records with a window of two and the
\* Column-Store is about to compute its hlc3 bands: the hlc3s they will read
\* are written, the ohlc4s are not yet
C26_Witness ==
  /\ calcWindow = 2 /\ Len(ohlcs) = 3 /\ rowTargetIndex = 3
  /\ pc = "OhlcSystem.calculateAll" /\ pass = 3
  /\ At(ohlcs, 2).hlc3Average
       = Div(Add(At(ohlcs, 1).hlc3, At(ohlcs, 2).hlc3), N(2))
  /\ At(ohlcSystem.hlc3s, 2) # N(0)
  /\ At(ohlcSystem.hlc3Averages, 2) = N(0)
  /\ At(ohlcSystem.ohlc4s, 2) = N(0)

(***************************************************************************)
(* Properties of the chart samples, under SpecSample.                      *)
(***************************************************************************)
\* the evenly distributed sample of the first length values of array
FullSample(array, length, samples) ==
  IF length = 0 \/ samples = 0 THEN <<>> ELSE SampleEvenly(array, length, samples)

\* the README's reading of CHART_TAIL: 0 disables the restriction, a
\* positive tail keeps the most recent tail values of the sample
PromisedSample(array, length, samples, tail) ==
  IF tail = 0 THEN FullSample(array, length, samples)
  ELSE SubSeq(FullSample(array, length, samples),
              Max(1, Len(FullSample(array, length, samples)) - tail + 1),
              Len(FullSample(array, length, samples)))

\* C17: with CHART_TAIL = 0 the tail restriction is disabled, so sampleArray
\* and sampleFloat64Array return the full evenly distributed sample, of
\* min(samples, length) elements; with tail > 0 they return the most recent
\* tail sampled values.
C17_TailZeroDisables ==
  /\ rowChart.status # "pending"
       => /\ rowChart.sampleArray
               = PromisedSample(ohlcs, Len(ohlcs), chartSamples, chartTail)
          /\ chartTail = 0
               => Len(rowChart.sampleArray) = Min(chartSamples, Len(ohlcs))
  /\ colChart.status # "pending"
       => /\ AlgUtils_sampleArray(ohlcSystem.dates, chartSamples, chartTail).value
               = PromisedSample(ohlcSystem.dates, Len(ohlcSystem.dates),
                                chartSamples, chartTail)
          /\ AlgUtils_sampleFloat64Array(ohlcSystem.closes, ohlcSystem.length,
                                         chartSamples, chartTail)
               = [threw |-> FALSE,
                  value |-> PromisedSample(ohlcSystem.closes, ohlcSystem.length,
                                           chartSamples, chartTail)]

\* the second half of C17 alone: what a positive CHART_TAIL gives
TailKeepsMostRecent ==
  (rowChart.status # "pending" /\ chartTail > 0)
    => rowChart.sampleArray = PromisedSample(ohlcs, Len(ohlcs), chartSamples, chartTail)

=============================================================================
